---------------------------- MODULE Spec2Model ----------------------------
(***************************************************************************)
(* Order discount engine of voucher-api: OrdersController / OrdersService  *)
(* (applyDiscount, removeDiscount, cancelOrder), VouchersService and       *)
(* PromotionsService (validate, incrementUsage, decrementUsage, update,    *)
(* remove) over a PostgreSQL store accessed through Prisma.                *)
(*                                                                         *)
(* Every `await` of the services is one step of a request handler.         *)
(* Statements issued on the transaction client `tx` are buffered in the    *)
(* handler (txIns, txDel, txOrd), take row locks and become visible at     *)
(* commit (READ COMMITTED); statements issued on `this.prisma` (all the    *)
(* voucher/promotion reads and writes) are autocommitted at once.          *)
(*                                                                         *)
(* Money: persisted amounts are whole cents (DECIMAL(10,2)); amounts in    *)
(* flight are in units of 1/100 cent, so that a percentage of a cent       *)
(* amount is an integer.  Percentage values are whole percents.            *)
(***************************************************************************)
EXTENDS Integers, Sequences, FiniteSets, TLC

VARIABLES
    vouchers,     \* Voucher table: code -> row
    promotions,   \* Promotion table: code -> row
    orders,       \* Order table: id -> row
    discounts,    \* OrderDiscount table: set of committed rows
    proc,         \* request handlers: position and locals of each
    calls         \* number of requests started so far

vars == <<vouchers, promotions, orders, discounts, proc, calls>>

-----------------------------------------------------------------------------
\* the request handlers running at a time
Procs == {1, 2}

-----------------------------------------------------------------------------
(* The world: customers, orders with their items, the rules *)

Customers == {"c1", "c2"}
OrderIds == {"o1", "o2"}

\* an order put in the database as CONFIRMED (the seed script: no operation
\* of the API confirms an order)
SeededIds == {"o3"}

Item(pid, cat, price, qty) ==
    [productId |-> pid, category |-> cat, unitPrice |-> price, quantity |-> qty]

\* items as submitted to OrdersService.create (unitPrice in cents)
CartOf(o) ==
    IF o = "o1"
    THEN <<Item("p1", "Electronics", 60, 1), Item("p2", "Books", 25, 2)>>
    ELSE IF o = "o2"
    THEN <<Item("p3", "books", 101, 1)>>
    ELSE <<Item("p4", "Electronics", 250, 1)>>

OwnerOf(o) == IF o = "o2" THEN "c2" ELSE "c1"

RECURSIVE SumSeq(_)
SumSeq(s) == IF s = <<>> THEN 0 ELSE Head(s) + SumSeq(Tail(s))

Min(a, b) == IF a <= b THEN a ELSE b

\* String.prototype.toUpperCase / toLowerCase on the strings of the model
ToUpper(s) ==
    CASE s = "a" -> "A"
      [] s = "b" -> "B"
      [] OTHER -> s

ToLower(s) ==
    CASE s = "Electronics" -> "electronics"
      [] s = "ELECTRONICS" -> "electronics"
      [] s = "Books" -> "books"
      [] s = "BOOKS" -> "books"
      [] s = "Toys" -> "toys"
      [] OTHER -> s

\* cents -> units of 1/100 cent (Number(decimal))
Units(c) == c * 100

\* Number.prototype.toFixed(2) of an amount x given in 1/100 cent: the nearest
\* cent.  The amount is a binary double, so an exact decimal half cent lies a
\* hair above or below the tie and both neighbours are possible results
\* (e.g. 0.505 - 0.2 gives "0.30" but 0.2 + (0.505 - 0.2) gives "0.51").
ToFixed2(x) ==
    LET q == x \div 100
        r == x % 100
    IN  IF r = 50 THEN {q, q + 1}
        ELSE IF r < 50 THEN {q} ELSE {q + 1}

-----------------------------------------------------------------------------
(* Rows *)

Null == -1   \* a NULL column (minOrderValue)

VoucherRow(type, value, limit, minOrder) ==
    [discountType |-> type, discountValue |-> value, usageLimit |-> limit,
     currentUsage |-> 0, minOrderValue |-> minOrder, isActive |-> TRUE,
     expired |-> FALSE, version |-> 0, deleted |-> FALSE]

PromotionRow(type, value, limit, cats, items) ==
    [discountType |-> type, discountValue |-> value, usageLimit |-> limit,
     currentUsage |-> 0, eligibleCategories |-> cats, eligibleItems |-> items,
     isActive |-> TRUE, expired |-> FALSE, version |-> 0, deleted |-> FALSE]

VoucherCodes == {"A", "B"}
PromotionCodes == {"C"}

\* rules as created by VouchersService.create / PromotionsService.create:
\* currentUsage 0, version 0, active, not deleted (schema defaults).
\* FIXED values are cents, PERCENTAGE values whole percents.
InitVouchers ==
    [c \in VoucherCodes |->
        IF c = "A" THEN VoucherRow("FIXED", 37, 1, 100)
        ELSE VoucherRow("PERCENTAGE", 20, 2, Null)]

InitPromotions ==
    [c \in PromotionCodes |->
        PromotionRow("PERCENTAGE", 50, 2, <<"Books">>, <<>>)]

\* OrdersService.create: subtotal = sum of unitPrice * quantity, no discount,
\* status PENDING
CreateOrder(o) ==
    LET sub == SumSeq([i \in 1..Len(CartOf(o)) |->
                          CartOf(o)[i].unitPrice * CartOf(o)[i].quantity])
    IN  [customerId |-> OwnerOf(o), subtotal |-> sub, totalDiscount |-> 0,
         finalTotal |-> sub, status |-> "PENDING"]

-----------------------------------------------------------------------------
(* Request handlers *)

\* locals of a handler keep the fields the code reads later; a local that is
\* not read again is reset
NoOrd == [subtotal |-> 0, totalDiscount |-> 0, discounts |-> {}]
NoRule == [code |-> "", version |-> 0]
NoDisc == [id |-> 0, orderId |-> "", discountType |-> "", discountCode |-> "",
           discountAmount |-> 0]
NoDto == [none |-> TRUE]

\* the tables as a request found them (history, read by no step)
NoPre == [none |-> TRUE]

\* the rule row as validation or findOne returned it (history: the steps read
\* its code and version from `rule`)
NoSeen == [none |-> TRUE]

Database ==
    [vouchers |-> vouchers, promotions |-> promotions, orders |-> orders,
     discounts |-> discounts]

IdleProc ==
    [pc |-> "idle", op |-> "none", cust |-> "", oid |-> "", code |-> "",
     dto |-> NoDto, kind |-> "", ord |-> NoOrd, rule |-> NoRule,
     disc |-> NoDisc, amount |-> 0, txIns |-> {}, txDel |-> {}, txOrd |-> {},
     todo |-> {}, verr |-> "", res |-> "", dirty |-> FALSE, had |-> FALSE,
     pre |-> NoPre, seen |-> NoSeen, perr |-> ""]

\* locals dropped when a call returns or a transaction is rolled back
Clear(r) ==
    [r EXCEPT !.ord = NoOrd, !.rule = NoRule, !.disc = NoDisc, !.amount = 0,
              !.txIns = {}, !.txDel = {}, !.txOrd = {}, !.todo = {},
              !.seen = NoSeen]

Init ==
    /\ vouchers = InitVouchers
    /\ promotions = InitPromotions
    /\ orders = [o \in OrderIds \cup SeededIds |->
                    IF o \in SeededIds
                    THEN [CreateOrder(o) EXCEPT !.status = "CONFIRMED"]
                    ELSE CreateOrder(o)]
    /\ discounts = {}
    /\ proc = [p \in Procs |-> IdleProc]
    /\ calls = 0

-----------------------------------------------------------------------------
(* Pure functions of the services *)

Range(s) == {s[i] : i \in 1..Len(s)}

\* VouchersService.findOne / PromotionsService.findOne on a table: the rows
\* with the upper-cased code and deletedAt = null (a set of 0 or 1 codes)
FindOne(table, code) ==
    {c \in DOMAIN table : c = ToUpper(code) /\ ~table[c].deleted}

\* validateVoucher checking the expiration before isActive
validateVoucherExpiryFirst(code, orderValue) ==
    IF FindOne(vouchers, code) = {} THEN "RuleNotFound"
    ELSE LET voucher == vouchers[ToUpper(code)]
         IN  IF voucher.expired THEN "Expired"
             ELSE IF ~voucher.isActive THEN "Inactive"
             ELSE IF voucher.currentUsage >= voucher.usageLimit
                  THEN "UsageLimitReached"
             ELSE IF voucher.minOrderValue # Null
                     /\ orderValue < voucher.minOrderValue
                  THEN "BelowMinOrder"
             ELSE ""

\* VouchersService.validateVoucher: "" when the voucher is usable, else the
\* first failing check.  orderValue in cents.
validateVoucher(code, orderValue) ==
    IF FindOne(vouchers, code) = {} THEN "RuleNotFound"
    ELSE LET voucher == vouchers[ToUpper(code)]
         IN  IF ~voucher.isActive THEN "Inactive"
             ELSE IF voucher.expired THEN "Expired"
             ELSE IF voucher.currentUsage >= voucher.usageLimit
                  THEN "UsageLimitReached"
             ELSE IF voucher.minOrderValue # Null
                     /\ orderValue < voucher.minOrderValue
                  THEN "BelowMinOrder"
             ELSE ""

\* PromotionsService.validatePromotion
validatePromotion(code) ==
    IF FindOne(promotions, code) = {} THEN "RuleNotFound"
    ELSE LET promotion == promotions[ToUpper(code)]
         IN  IF ~promotion.isActive THEN "Inactive"
             ELSE IF promotion.expired THEN "Expired"
             ELSE IF promotion.currentUsage >= promotion.usageLimit
                  THEN "UsageLimitReached"
             ELSE ""

\* PromotionsService.checkEligibility: the items matching by category
\* (case-insensitive) or by product id, in their order
\* checkEligibility comparing the categories as they are written
checkEligibilityCaseSensitive(promotion, orderItems) ==
    LET eligibleCategories == Range(promotion.eligibleCategories)
        eligibleItemIds == Range(promotion.eligibleItems)
        matches(item) ==
            \/ /\ Len(promotion.eligibleCategories) > 0
               /\ item.category \in eligibleCategories
            \/ /\ Len(promotion.eligibleItems) > 0
               /\ item.productId \in eligibleItemIds
    IN  SelectSeq(orderItems, matches)

checkEligibility(promotion, orderItems) ==
    LET eligibleCategories ==
            {ToLower(cat) : cat \in Range(promotion.eligibleCategories)}
        eligibleItemIds == Range(promotion.eligibleItems)
        matches(item) ==
            \/ /\ Len(promotion.eligibleCategories) > 0
               /\ ToLower(item.category) \in eligibleCategories
            \/ /\ Len(promotion.eligibleItems) > 0
               /\ item.productId \in eligibleItemIds
    IN  SelectSeq(orderItems, matches)

\* calculateVoucherDiscount that gives a FIXED voucher's face value
calculateVoucherDiscountFaceValue(voucher, subtotal) ==
    IF voucher.discountType = "PERCENTAGE"
    THEN (subtotal * voucher.discountValue) \div 100
    ELSE Units(voucher.discountValue)

\* OrdersService.calculateVoucherDiscount; subtotal and result in 1/100 cent
calculateVoucherDiscount(voucher, subtotal) ==
    IF voucher.discountType = "PERCENTAGE"
    THEN (subtotal * voucher.discountValue) \div 100
    ELSE Min(Units(voucher.discountValue), subtotal)

\* calculatePromotionDiscount with a FIXED amount per unit that is not held
\* to the price of the unit
calculatePromotionDiscountPerUnit(promotion, eligibleItems) ==
    LET eligibleTotal ==
            SumSeq([i \in 1..Len(eligibleItems) |->
                Units(eligibleItems[i].unitPrice) * eligibleItems[i].quantity])
    IN  IF promotion.discountType = "PERCENTAGE"
        THEN (eligibleTotal * promotion.discountValue) \div 100
        ELSE SumSeq([i \in 1..Len(eligibleItems) |->
                Units(promotion.discountValue) * eligibleItems[i].quantity])

\* OrdersService.calculatePromotionDiscount; result in 1/100 cent
calculatePromotionDiscount(promotion, eligibleItems) ==
    LET eligibleTotal ==
            SumSeq([i \in 1..Len(eligibleItems) |->
                Units(eligibleItems[i].unitPrice) * eligibleItems[i].quantity])
    IN  IF promotion.discountType = "PERCENTAGE"
        THEN (eligibleTotal * promotion.discountValue) \div 100
        ELSE SumSeq([i \in 1..Len(eligibleItems) |->
                Min(Units(promotion.discountValue) * eligibleItems[i].quantity,
                    Units(eligibleItems[i].unitPrice)
                        * eligibleItems[i].quantity)])

\* enforceDiscountCap that refuses whatever does not fit whole
enforceDiscountCapAllOrNothing(subtotal, currentTotalDiscount, newDiscountAmount) ==
    IF currentTotalDiscount + newDiscountAmount > subtotal \div 2
    THEN [throws |-> TRUE, value |-> 0]
    ELSE [throws |-> FALSE, value |-> newDiscountAmount]

\* enforceDiscountCap that lets every calculated discount through
enforceDiscountCapUncapped(subtotal, currentTotalDiscount, newDiscountAmount) ==
    [throws |-> FALSE, value |-> newDiscountAmount]

\* OrdersService.enforceDiscountCap; amounts in 1/100 cent (subtotal is a
\* whole number of cents, so half of it is exact)
enforceDiscountCap(subtotal, currentTotalDiscount, newDiscountAmount) ==
    LET maxAllowedDiscount == subtotal \div 2
        proposedTotalDiscount == currentTotalDiscount + newDiscountAmount
        cappedNewDiscount == maxAllowedDiscount - currentTotalDiscount
    IN  IF proposedTotalDiscount > maxAllowedDiscount
        THEN IF cappedNewDiscount <= 0
             THEN [throws |-> TRUE, value |-> 0]
             ELSE [throws |-> FALSE, value |-> cappedNewDiscount]
        ELSE [throws |-> FALSE, value |-> newDiscountAmount]

-----------------------------------------------------------------------------
(* Helpers of the handlers *)

\* Sending a response touches no shared state: it is taken as soon as it is
\* enabled, before any other step.  Handler p is at `loc` and takes a step.
Responding == \E q \in Procs : proc[q].pc = "done"

At(p, loc) == proc[p].pc = loc /\ ~Responding

Table(kind) == IF kind = "VOUCHER" THEN vouchers ELSE promotions

SetRule(kind, code, row) ==
    IF kind = "VOUCHER"
    THEN /\ vouchers' = [vouchers EXCEPT ![code] = row]
         /\ UNCHANGED promotions
    ELSE /\ promotions' = [promotions EXCEPT ![code] = row]
         /\ UNCHANGED vouchers

\* the service call is over: the controller holds `result` (the response or
\* the exception) and sends it
Return(p, result) ==
    proc' = [proc EXCEPT ![p] = [Clear(@) EXCEPT !.pc = "done", !.res = result]]

\* the controller rethrowing the error of the attempt that failed last
ThrowLastError(p, err) ==
    IF proc[p].op = "apply" /\ proc[p].kind = "VOUCHER"
    THEN proc' = [proc EXCEPT ![p] =
                    [Clear(@) EXCEPT !.pc = "findOne", !.kind = "PROMOTION",
                                     !.verr = err]]
    ELSE Return(p, err)

\* An exception leaves the service method; an open $transaction is rolled
\* back (its buffered statements are dropped).  OrdersController.applyDiscount
\* catches the error of applyVoucher and tries applyPromotion; when that
\* fails too it rethrows the voucher error (`perr` keeps the promotion error
\* it drops: history).
Throw(p, err) ==
    IF proc[p].op = "apply" /\ proc[p].kind = "VOUCHER"
    THEN proc' = [proc EXCEPT ![p] =
                    [Clear(@) EXCEPT !.pc = "findOne", !.kind = "PROMOTION",
                                     !.verr = err]]
    ELSE IF proc[p].op = "apply"
    THEN proc' = [proc EXCEPT ![p] =
                    [Clear(@) EXCEPT !.pc = "done", !.res = proc[p].verr,
                                     !.perr = err]]
    ELSE Return(p, err)

\* row lock on the Order row, held by a transaction that updated it
OrderLocked(p, o) ==
    \E q \in Procs \ {p} : proc[q].oid = o /\ proc[q].txOrd # {}

\* another transaction holds an uncommitted insert or delete of the
\* (orderId, discountCode) index entry
KeyLocked(p, o, code) ==
    \E q \in Procs \ {p} :
        \/ \E d \in proc[q].txIns : d.orderId = o /\ d.discountCode = code
        \/ \E d \in discounts :
              d.id \in proc[q].txDel /\ d.orderId = o /\ d.discountCode = code

-----------------------------------------------------------------------------
(* Requests arriving *)

\* a request: the route, the authenticated caller, the path and body
Request(op, cust, o, code, kind, dto) ==
    [op |-> op, cust |-> cust, oid |-> o, code |-> code, kind |-> kind,
     dto |-> dto]

\* POST /orders/:id/apply-discount (OrdersController.applyDiscount tries the
\* code as a voucher first)
ApplyDiscount(cust, o, code) == Request("apply", cust, o, code, "VOUCHER", NoDto)

\* DELETE /orders/:id/discounts/:code
RemoveDiscount(cust, o, code) ==
    Request("removeDiscount", cust, o, code, "", NoDto)

\* POST /orders/:id/cancel
CancelOrder(cust, o) == Request("cancel", cust, o, "", "", NoDto)

\* PATCH /vouchers/:code, PATCH /promotions/:code (kind: the controller)
Update(kind, code, dto) == Request("update", "", "", code, kind, dto)

\* DELETE /vouchers/:code, DELETE /promotions/:code
Remove(kind, code) == Request("remove", "", "", code, kind, NoDto)

\* POST /promotions
Create(kind, code, dto) == Request("create", "", "", code, kind, dto)

\* the order carries an OrderDiscount of the code (compared upper-cased)
Applied(o, code) ==
    \E d \in discounts : d.orderId = o /\ d.discountCode = ToUpper(code)

\* a request arrives at an idle handler and the controller calls the service;
\* `had` records whether the order carried the code at that moment, `pre`
\* what is kept of the tables at that moment (`before`: Database or NoPre),
\* `dirty` (set by the steps) whether the call has committed a write
Start(p, req, limit, before) ==
    /\ At(p, "idle")
    /\ calls < limit
    /\ calls' = calls + 1
    /\ proc' = [proc EXCEPT ![p] =
                  [IdleProc EXCEPT !.pc = CASE req.op = "create" -> "adm_create"
                                            [] req.op \in {"update", "remove"}
                                                 -> "adm_findOne"
                                            [] OTHER -> "findOne",
                                   !.op = req.op, !.cust = req.cust,
                                   !.oid = req.oid, !.code = req.code,
                                   !.kind = req.kind, !.dto = req.dto,
                                   !.had = Applied(req.oid, req.code),
                                   !.pre = before]]
    /\ UNCHANGED <<vouchers, promotions, orders, discounts>>

-----------------------------------------------------------------------------
(* OrdersService: steps of applyVoucher / applyPromotion *)

OrderDiscountsOf(o) == {d \in discounts : d.orderId = o}

\* OrdersService.findOne (order with items and discounts, filtered by owner),
\* then the caller's status check
\* findOne with cancelOrder refusing a CANCELLED order only
FindOneOrderCancelledOnly(p) ==
    LET r == proc[p]
        order == orders[r.oid]
    IN  /\ At(p, "findOne")
        /\ IF order.customerId # r.cust
           THEN Throw(p, "OrderNotFound")
           ELSE IF \/ r.op # "cancel" /\ order.status # "PENDING"
                   \/ r.op = "cancel" /\ order.status = "CANCELLED"
           THEN Throw(p, "InvalidState")
           ELSE proc' = [proc EXCEPT ![p] =
                   [@ EXCEPT !.ord = [subtotal |-> order.subtotal,
                                      totalDiscount |-> order.totalDiscount,
                                      discounts |-> OrderDiscountsOf(r.oid)],
                             !.pc = CASE r.op = "apply" -> "findExisting"
                                      [] r.op = "removeDiscount" -> "findDiscount"
                                      [] OTHER -> "tx_status"]]
        /\ UNCHANGED <<vouchers, promotions, orders, discounts, calls>>

\* findOne without the status check of the callers
FindOneOrderAnyStatus(p) ==
    LET r == proc[p]
        order == orders[r.oid]
    IN  /\ At(p, "findOne")
        /\ IF order.customerId # r.cust
           THEN Throw(p, "OrderNotFound")
           ELSE proc' = [proc EXCEPT ![p] =
                   [@ EXCEPT !.ord = [subtotal |-> order.subtotal,
                                      totalDiscount |-> order.totalDiscount,
                                      discounts |-> OrderDiscountsOf(r.oid)],
                             !.pc = CASE r.op = "apply" -> "findExisting"
                                      [] r.op = "removeDiscount" -> "findDiscount"
                                      [] OTHER -> "tx_status"]]
        /\ UNCHANGED <<vouchers, promotions, orders, discounts, calls>>

FindOneOrder(p) ==
    LET r == proc[p]
        order == orders[r.oid]
    IN  /\ At(p, "findOne")
        /\ IF order.customerId # r.cust
           THEN Throw(p, "OrderNotFound")
           ELSE IF order.status # "PENDING"
           THEN Throw(p, "InvalidState")
           ELSE proc' = [proc EXCEPT ![p] =
                   [@ EXCEPT !.ord = [subtotal |-> order.subtotal,
                                      totalDiscount |-> order.totalDiscount,
                                      discounts |-> OrderDiscountsOf(r.oid)],
                             !.pc = CASE r.op = "apply" -> "findExisting"
                                      [] r.op = "removeDiscount" -> "findDiscount"
                                      [] OTHER -> "tx_status"]]
        /\ UNCHANGED <<vouchers, promotions, orders, discounts, calls>>

\* the duplicate check comparing the code as typed
FindExistingAsTyped(p) ==
    LET r == proc[p]
    IN  /\ At(p, "findExisting")
        /\ IF \E d \in discounts :
                 d.orderId = r.oid /\ d.discountCode = r.code
           THEN Throw(p, "DuplicateCode")
           ELSE proc' = [proc EXCEPT ![p].pc = "validate"]
        /\ UNCHANGED <<vouchers, promotions, orders, discounts, calls>>

\* applyVoucher / applyPromotion: orderDiscount.findUnique on
\* (orderId, code.toUpperCase()); a hit is the duplicate application
FindExisting(p) ==
    LET r == proc[p]
    IN  /\ At(p, "findExisting")
        /\ IF Applied(r.oid, r.code)
           THEN Throw(p, "DuplicateCode")
           ELSE proc' = [proc EXCEPT ![p].pc = "validate"]
        /\ UNCHANGED <<vouchers, promotions, orders, discounts, calls>>

\* applyVoucher: validateVoucher, calculateVoucherDiscount, enforceDiscountCap
ValidateVoucherStep(p) ==
    LET r == proc[p]
        err == validateVoucher(r.code, r.ord.subtotal)
        voucher == vouchers[ToUpper(r.code)]
        subtotal == Units(r.ord.subtotal)
        calculatedDiscount == calculateVoucherDiscount(voucher, subtotal)
        capped == enforceDiscountCap(subtotal, Units(r.ord.totalDiscount),
                                     calculatedDiscount)
    IN  /\ At(p, "validate") /\ r.op = "apply" /\ r.kind = "VOUCHER"
        /\ IF err # "" THEN Throw(p, err)
           ELSE IF capped.throws THEN Throw(p, "CapExhausted")
           ELSE proc' = [proc EXCEPT ![p] =
                   [@ EXCEPT !.rule = [code |-> ToUpper(r.code),
                                       version |-> voucher.version],
                             !.seen = voucher,
                             !.amount = capped.value,
                             !.pc = "tx_insert"]]
        /\ UNCHANGED <<vouchers, promotions, orders, discounts, calls>>

\* applyPromotion: validatePromotion, checkEligibility,
\* calculatePromotionDiscount, enforceDiscountCap
ValidatePromotionStep(p) ==
    LET r == proc[p]
        err == validatePromotion(r.code)
        promotion == promotions[ToUpper(r.code)]
        eligibleItems == checkEligibility(promotion, CartOf(r.oid))
        calculatedDiscount == calculatePromotionDiscount(promotion, eligibleItems)
        capped == enforceDiscountCap(Units(r.ord.subtotal),
                                     Units(r.ord.totalDiscount),
                                     calculatedDiscount)
    IN  /\ At(p, "validate") /\ r.op = "apply" /\ r.kind = "PROMOTION"
        /\ IF err # "" THEN Throw(p, err)
           ELSE IF Len(eligibleItems) = 0 THEN Throw(p, "NoEligibleItems")
           ELSE IF capped.throws THEN Throw(p, "CapExhausted")
           ELSE proc' = [proc EXCEPT ![p] =
                   [@ EXCEPT !.rule = [code |-> ToUpper(r.code),
                                       version |-> promotion.version],
                             !.seen = promotion,
                             !.amount = capped.value,
                             !.pc = "tx_insert"]]
        /\ UNCHANGED <<vouchers, promotions, orders, discounts, calls>>

\* OrderDiscount.id is a fresh uuid: here the least id that no committed row
\* and no handler refers to
UsedIds ==
    {d.id : d \in discounts}
    \cup UNION {{d.id : d \in proc[q].ord.discounts \cup proc[q].todo
                                \cup proc[q].txIns \cup {proc[q].disc}}
                   \cup proc[q].txDel : q \in Procs}

FreshId == CHOOSE i \in 1..(Cardinality(UsedIds) + 1) : i \notin UsedIds

\* tx.orderDiscount.create: waits for a concurrent transaction holding the
\* same unique-index entry; a committed row with the key is a unique
\* violation (Prisma P2002, not caught by the service)
TxInsert(p) ==
    LET r == proc[p]
    IN  /\ At(p, "tx_insert")
        /\ ~KeyLocked(p, r.oid, r.rule.code)
        /\ IF \E d \in discounts :
                 d.orderId = r.oid /\ d.discountCode = r.rule.code
           THEN Throw(p, "P2002")
           ELSE \E amt \in ToFixed2(r.amount) :
                   proc' = [proc EXCEPT ![p] =
                      [@ EXCEPT !.txIns = {[id |-> FreshId,
                                            orderId |-> r.oid,
                                            discountType |-> r.kind,
                                            discountCode |-> r.rule.code,
                                            discountAmount |-> amt]},
                                !.pc = "tx_update"]]
        /\ UNCHANGED <<vouchers, promotions, orders, discounts, calls>>

\* tx.order.update of applyVoucher / applyPromotion: the new totals are
\* computed from the order read before the transaction.  With no discount so
\* far the new total is the very number stored on the record (0 + x = x) and
\* prints the same.
TxUpdateApply(p) ==
    LET r == proc[p]
        newTotalDiscount == Units(r.ord.totalDiscount) + r.amount
        newFinalTotal == Units(r.ord.subtotal) - newTotalDiscount
    IN  /\ At(p, "tx_update") /\ r.op = "apply"
        /\ ~OrderLocked(p, r.oid)
        /\ \E td \in IF r.ord.totalDiscount = 0
                      THEN {d.discountAmount : d \in r.txIns}
                      ELSE ToFixed2(newTotalDiscount),
              ft \in ToFixed2(newFinalTotal) :
              proc' = [proc EXCEPT ![p] =
                 [@ EXCEPT !.txOrd = {[orders[r.oid] EXCEPT
                                          !.totalDiscount = td,
                                          !.finalTotal = ft]},
                           !.ord = NoOrd, !.amount = 0,
                           !.pc = "increment"]]
        /\ UNCHANGED <<vouchers, promotions, orders, discounts, calls>>

\* incrementUsage that leaves the version as it is
IncrementUsageKeepsVersion(p) ==
    LET r == proc[p]
        row == Table(r.kind)[r.rule.code]
    IN  /\ At(p, "increment")
        /\ IF row.version = r.rule.version
           THEN /\ SetRule(r.kind, r.rule.code,
                           [row EXCEPT !.currentUsage = @ + 1])
                /\ proc' = [proc EXCEPT ![p] =
                              [@ EXCEPT !.pc = "commit", !.dirty = TRUE]]
           ELSE /\ Throw(p, "VersionConflict")
                /\ UNCHANGED <<vouchers, promotions>>
        /\ UNCHANGED <<orders, discounts, calls>>

\* incrementUsage without the version in its WHERE clause
IncrementUsageAnyVersion(p) ==
    LET r == proc[p]
        row == Table(r.kind)[r.rule.code]
    IN  /\ At(p, "increment")
        /\ SetRule(r.kind, r.rule.code,
                   [row EXCEPT !.currentUsage = @ + 1, !.version = @ + 1])
        /\ proc' = [proc EXCEPT ![p] = [@ EXCEPT !.pc = "commit", !.dirty = TRUE]]
        /\ UNCHANGED <<orders, discounts, calls>>

\* VouchersService.incrementUsage / PromotionsService.incrementUsage, called
\* on this.prisma (not on tx): one conditional UPDATE, committed at once
IncrementUsage(p) ==
    LET r == proc[p]
        row == Table(r.kind)[r.rule.code]
    IN  /\ At(p, "increment")
        /\ IF row.version = r.rule.version
           THEN /\ SetRule(r.kind, r.rule.code,
                           [row EXCEPT !.currentUsage = @ + 1,
                                       !.version = @ + 1])
                /\ proc' = [proc EXCEPT ![p] =
                              [@ EXCEPT !.pc = "commit", !.dirty = TRUE]]
           ELSE /\ Throw(p, "VersionConflict")
                /\ UNCHANGED <<vouchers, promotions>>
        /\ UNCHANGED <<orders, discounts, calls>>

\* the $transaction callback returned: COMMIT of the buffered statements
Commit(p) ==
    LET r == proc[p]
    IN  /\ At(p, "commit")
        /\ discounts' = {d \in discounts : d.id \notin r.txDel} \cup r.txIns
        /\ orders' = IF r.txOrd = {} THEN orders
                     ELSE [orders EXCEPT ![r.oid] = CHOOSE row \in r.txOrd : TRUE]
        /\ proc' = [proc EXCEPT ![p] =
                      [Clear(@) EXCEPT !.pc = "done", !.res = "ok",
                                       !.dirty = TRUE]]
        /\ UNCHANGED <<vouchers, promotions, calls>>

-----------------------------------------------------------------------------
(* OrdersService: steps of removeDiscount and cancelOrder *)

\* removeDiscount: orderDiscount.findUnique on (orderId, code.toUpperCase())
FindDiscount(p) ==
    LET r == proc[p]
        found == {d \in discounts :
                     d.orderId = r.oid /\ d.discountCode = ToUpper(r.code)}
    IN  /\ At(p, "findDiscount")
        /\ IF found = {} THEN Throw(p, "DiscountNotFound")
           ELSE \E d \in found :
                   proc' = [proc EXCEPT ![p] =
                              [@ EXCEPT !.disc = d, !.pc = "tx_delete"]]
        /\ UNCHANGED <<vouchers, promotions, orders, discounts, calls>>

\* tx.orderDiscount.delete where id: waits for a concurrent delete of the
\* row; a row that is gone is Prisma P2025, not caught by the service
TxDelete(p) ==
    LET r == proc[p]
    IN  /\ At(p, "tx_delete")
        /\ \A q \in Procs \ {p} : r.disc.id \notin proc[q].txDel
        /\ IF r.disc \notin discounts
           THEN Throw(p, "P2025")
           ELSE proc' = [proc EXCEPT ![p] =
                   [@ EXCEPT !.txDel = {r.disc.id}, !.pc = "tx_update"]]
        /\ UNCHANGED <<vouchers, promotions, orders, discounts, calls>>

\* tx.order.update of removeDiscount: totals recomputed from the order read
\* before the transaction and the amount stored on the discount
TxUpdateRemove(p) ==
    LET r == proc[p]
        newTotalDiscount ==
            Units(r.ord.totalDiscount) - Units(r.disc.discountAmount)
        newFinalTotal == Units(r.ord.subtotal) - newTotalDiscount
    IN  /\ At(p, "tx_update") /\ r.op = "removeDiscount"
        /\ ~OrderLocked(p, r.oid)
        /\ \E td \in ToFixed2(newTotalDiscount), ft \in ToFixed2(newFinalTotal) :
              proc' = [proc EXCEPT ![p] =
                 [@ EXCEPT !.txOrd = {[orders[r.oid] EXCEPT
                                          !.totalDiscount = td,
                                          !.finalTotal = ft]},
                           !.ord = NoOrd,
                           !.pc = "rule_findOne"]]
        /\ UNCHANGED <<vouchers, promotions, orders, discounts, calls>>

\* a cancelOrder that also resets the totals of the order
TxStatusZeroTotals(p) ==
    LET r == proc[p]
    IN  /\ At(p, "tx_status")
        /\ ~OrderLocked(p, r.oid)
        /\ proc' = [proc EXCEPT ![p] =
              [@ EXCEPT !.txOrd = {[orders[r.oid] EXCEPT
                                       !.status = "CANCELLED",
                                       !.totalDiscount = 0,
                                       !.finalTotal = @ + orders[r.oid].totalDiscount]},
                        !.todo = r.ord.discounts,
                        !.ord = NoOrd,
                        !.pc = IF r.ord.discounts = {} THEN "commit"
                               ELSE "rule_findOne"]]
        /\ UNCHANGED <<vouchers, promotions, orders, discounts, calls>>

\* tx.order.update of cancelOrder: status CANCELLED; the loop then runs over
\* the discounts of the order read before the transaction
TxStatus(p) ==
    LET r == proc[p]
    IN  /\ At(p, "tx_status")
        /\ ~OrderLocked(p, r.oid)
        /\ proc' = [proc EXCEPT ![p] =
              [@ EXCEPT !.txOrd = {[orders[r.oid] EXCEPT !.status = "CANCELLED"]},
                        !.todo = r.ord.discounts,
                        !.ord = NoOrd,
                        !.pc = IF r.ord.discounts = {} THEN "commit"
                               ELSE "rule_findOne"]]
        /\ UNCHANGED <<vouchers, promotions, orders, discounts, calls>>

\* a release loop that stops after the first discount
AfterDecrementOnce(r) == "commit"

\* where a release continues after one decrementUsage
AfterDecrement(r) ==
    IF r.op = "cancel" /\ r.todo # {} THEN "rule_findOne" ELSE "commit"

\* removeDiscount / cancelOrder: vouchersService.findOne(discountCode) or
\* promotionsService.findOne(discountCode), by the record's discountType.
\* cancelOrder takes the discounts in the order the query returned them
\* (no orderBy: any order).
RuleFindOne(p) ==
    LET r == proc[p]
        candidates == IF r.op = "cancel" THEN r.todo ELSE {r.disc}
    IN  /\ At(p, "rule_findOne")
        /\ \E d \in candidates :
              IF FindOne(Table(d.discountType), d.discountCode) = {}
              THEN Throw(p, "RuleNotFound")
              ELSE proc' = [proc EXCEPT ![p] =
                      [@ EXCEPT !.disc = NoDisc,
                                !.kind = d.discountType,
                                !.todo = r.todo \ {d},
                                !.rule = [code |-> d.discountCode,
                                          version |-> 0],
                                !.pc = "dec_read"]]
        /\ UNCHANGED <<vouchers, promotions, orders, discounts, calls>>

\* decrementUsage returning before its update whatever the counter
DecrementReadSkips(p) ==
    LET r == proc[p]
    IN  /\ At(p, "dec_read")
        /\ proc' = [proc EXCEPT ![p].pc = AfterDecrement(r)]
        /\ UNCHANGED <<vouchers, promotions, orders, discounts, calls>>

\* decrementUsage, first statement: findUnique by id; nothing to decrement
\* when currentUsage is 0
DecrementRead(p) ==
    LET r == proc[p]
        row == Table(r.kind)[r.rule.code]
    IN  /\ At(p, "dec_read")
        /\ proc' = [proc EXCEPT ![p].pc =
                      IF row.currentUsage = 0 THEN AfterDecrement(r)
                      ELSE "dec_write"]
        /\ UNCHANGED <<vouchers, promotions, orders, discounts, calls>>

\* decrementUsage, second statement: the unconditional UPDATE on this.prisma
\* (currentUsage - 1, version + 1), committed at once
DecrementWrite(p) ==
    LET r == proc[p]
        row == Table(r.kind)[r.rule.code]
    IN  /\ At(p, "dec_write")
        /\ SetRule(r.kind, r.rule.code,
                   [row EXCEPT !.currentUsage = @ - 1, !.version = @ + 1])
        /\ proc' = [proc EXCEPT ![p] =
                      [@ EXCEPT !.pc = AfterDecrement(r), !.dirty = TRUE]]
        /\ UNCHANGED <<orders, discounts, calls>>

-----------------------------------------------------------------------------
(* VouchersService / PromotionsService: admin update and remove *)

\* the data of prisma.update: the row with the fields of the dto replaced
Merge(row, dto) ==
    [f \in DOMAIN row |-> IF f \in DOMAIN dto THEN dto[f] ELSE row[f]]

\* PromotionsService.update: at least one eligibility criterion must remain
\* (checked on the promotion read by findOne and the dto)
NoEligibility(promotion, dto) ==
    LET newCategories == IF "eligibleCategories" \in DOMAIN dto
                         THEN dto.eligibleCategories
                         ELSE promotion.eligibleCategories
        newItems == IF "eligibleItems" \in DOMAIN dto
                    THEN dto.eligibleItems
                    ELSE promotion.eligibleItems
    IN  Len(newCategories) = 0 /\ Len(newItems) = 0

\* update / remove: findOne(code), then the checks made on the row read
AdminFindOne(p) ==
    LET r == proc[p]
        row == Table(r.kind)[ToUpper(r.code)]
    IN  /\ At(p, "adm_findOne")
        /\ IF FindOne(Table(r.kind), r.code) = {}
           THEN Throw(p, "RuleNotFound")
           ELSE IF r.op = "update" /\ r.kind = "PROMOTION"
                   /\ NoEligibility(row, r.dto)
           THEN Throw(p, "InvalidInput")
           ELSE IF r.op = "remove" /\ row.currentUsage > 0
           THEN Throw(p, "InUse")
           ELSE proc' = [proc EXCEPT ![p] =
                   [@ EXCEPT !.rule = [code |-> ToUpper(r.code),
                                       version |-> row.version],
                             !.seen = row,
                             !.pc = IF r.op = "update" THEN "adm_update"
                                    ELSE "adm_remove"]]
        /\ UNCHANGED <<vouchers, promotions, orders, discounts, calls>>

\* update writing whatever the version of the row
AdminUpdateAnyVersion(p) ==
    LET r == proc[p]
        row == Table(r.kind)[r.rule.code]
    IN  /\ At(p, "adm_update")
        /\ SetRule(r.kind, r.rule.code,
                   [Merge(row, r.dto) EXCEPT !.version = @ + 1])
        /\ proc' = [proc EXCEPT ![p] =
              [Clear(@) EXCEPT !.pc = "done", !.res = "ok", !.dirty = TRUE]]
        /\ UNCHANGED <<orders, discounts, calls>>

\* update: prisma.update where {id, version}, data {...dto, version + 1};
\* no row matching is P2025, surfaced as ConflictException
AdminUpdate(p) ==
    LET r == proc[p]
        row == Table(r.kind)[r.rule.code]
    IN  /\ At(p, "adm_update")
        /\ IF row.version = r.rule.version
           THEN /\ SetRule(r.kind, r.rule.code,
                           [Merge(row, r.dto) EXCEPT !.version = @ + 1])
                /\ proc' = [proc EXCEPT ![p] =
                      [Clear(@) EXCEPT !.pc = "done", !.res = "ok",
                                       !.dirty = TRUE]]
           ELSE /\ Throw(p, "VersionConflict")
                /\ UNCHANGED <<vouchers, promotions>>
        /\ UNCHANGED <<orders, discounts, calls>>

\* remove: prisma.update where {id}, data {deletedAt: now, isActive: false}
AdminRemove(p) ==
    LET r == proc[p]
        row == Table(r.kind)[r.rule.code]
    IN  /\ At(p, "adm_remove")
        /\ SetRule(r.kind, r.rule.code,
                   [row EXCEPT !.deleted = TRUE, !.isActive = FALSE])
        /\ proc' = [proc EXCEPT ![p] =
              [Clear(@) EXCEPT !.pc = "done", !.res = "ok", !.dirty = TRUE]]
        /\ UNCHANGED <<orders, discounts, calls>>

\* a list of the CreatePromotionDto, missing or not
ListOf(dto, field) == IF field \in DOMAIN dto THEN dto[field] ELSE <<>>

\* PromotionsService.create: the checks on the dto, then findFirst by code
\* (soft-deleted rows included)
AdminCreateCheck(p) ==
    LET r == proc[p]
    IN  /\ At(p, "adm_create")
        /\ IF /\ Len(ListOf(r.dto, "eligibleCategories")) = 0
              /\ Len(ListOf(r.dto, "eligibleItems")) = 0
           THEN Throw(p, "InvalidInput")
           ELSE IF r.dto.discountType = "PERCENTAGE" /\ r.dto.discountValue > 100
           THEN Throw(p, "InvalidInput")
           ELSE IF r.dto.expired
           THEN Throw(p, "InvalidInput")
           ELSE IF ToUpper(r.code) \in DOMAIN promotions
           THEN Throw(p, "RuleExists")
           ELSE proc' = [proc EXCEPT ![p].pc = "adm_insert"]
        /\ UNCHANGED <<vouchers, promotions, orders, discounts, calls>>

\* PromotionsService.create: prisma.promotion.create; a row of that code
\* inserted meanwhile is Prisma P2002 (Promotion_code_key)
AdminCreateInsert(p) ==
    LET r == proc[p]
        code == ToUpper(r.code)
    IN  /\ At(p, "adm_insert")
        /\ IF code \in DOMAIN promotions
           THEN /\ Throw(p, "P2002")
                /\ UNCHANGED promotions
           ELSE /\ promotions' =
                      [c \in DOMAIN promotions \cup {code} |->
                          IF c = code
                          THEN PromotionRow(r.dto.discountType,
                                            r.dto.discountValue,
                                            r.dto.usageLimit,
                                            ListOf(r.dto, "eligibleCategories"),
                                            ListOf(r.dto, "eligibleItems"))
                          ELSE promotions[c]]
                /\ proc' = [proc EXCEPT ![p] =
                      [Clear(@) EXCEPT !.pc = "done", !.res = "ok",
                                       !.dirty = TRUE]]
        /\ UNCHANGED <<vouchers, orders, discounts, calls>>

\* the response leaves the handler, which is free for the next request
Respond(p) ==
    /\ proc[p].pc = "done"
    /\ proc' = [proc EXCEPT ![p] = IdleProc]
    /\ UNCHANGED <<vouchers, promotions, orders, discounts, calls>>

-----------------------------------------------------------------------------
(* Specifications *)

\* requests of the customers handled one after the other by one handler
\* (no two calls overlap): any caller, any order, any spelling of a code
MaxSeqCalls == 4

InputCodes == {"A", "a", "B", "C"}

SeqRequests ==
    {ApplyDiscount(OwnerOf(o), o, code) : o \in OrderIds, code \in InputCodes}
    \cup {RemoveDiscount(OwnerOf(o), o, code) : o \in OrderIds,
                                                code \in InputCodes}
    \cup {CancelOrder(OwnerOf(o), o) : o \in OrderIds}
    \cup {ApplyDiscount("c2", "o1", "A"), RemoveDiscount("c2", "o1", "A"),
          CancelOrder("c2", "o1")}
    \cup {ApplyDiscount("c1", "o3", "A"), RemoveDiscount("c1", "o3", "A"),
          CancelOrder("c1", "o3")}

ArriveSeq == \E req \in SeqRequests : Start(1, req, MaxSeqCalls, Database)

NextSeq ==
    \/ ArriveSeq
    \/ FindOneOrder(1)
    \/ FindExisting(1)
    \/ ValidateVoucherStep(1)
    \/ ValidatePromotionStep(1)
    \/ TxInsert(1)
    \/ TxUpdateApply(1)
    \/ IncrementUsage(1)
    \/ FindDiscount(1)
    \/ TxDelete(1)
    \/ TxUpdateRemove(1)
    \/ TxStatus(1)
    \/ RuleFindOne(1)
    \/ DecrementRead(1)
    \/ DecrementWrite(1)
    \/ Commit(1)
    \/ Respond(1)

SpecSeq == Init /\ [][NextSeq]_vars

\* requests of the owners handled concurrently by two handlers: any handler
\* takes its next step
MaxCalls == 4

OwnerRequests ==
    {ApplyDiscount("c1", "o1", code) : code \in {"A", "B", "C"}}
    \cup {ApplyDiscount("c2", "o2", "A")}
    \cup {RemoveDiscount("c1", "o1", code) : code \in {"A", "B"}}
    \cup {CancelOrder("c1", "o1"), CancelOrder("c1", "o3")}

Arrive(p) == \E req \in OwnerRequests : Start(p, req, MaxCalls, NoPre)

Next ==
    \E p \in Procs :
        \/ Arrive(p)
        \/ FindOneOrder(p)
        \/ FindExisting(p)
        \/ ValidateVoucherStep(p)
        \/ ValidatePromotionStep(p)
        \/ TxInsert(p)
        \/ TxUpdateApply(p)
        \/ IncrementUsage(p)
        \/ FindDiscount(p)
        \/ TxDelete(p)
        \/ TxUpdateRemove(p)
        \/ TxStatus(p)
        \/ RuleFindOne(p)
        \/ DecrementRead(p)
        \/ DecrementWrite(p)
        \/ Commit(p)
        \/ Respond(p)

Spec == Init /\ [][Next]_vars

\* applyDiscount calls only, handled concurrently by two handlers
MaxApplyCalls == 3

ApplyRequests ==
    {ApplyDiscount(OwnerOf(o), o, code) : o \in OrderIds,
                                          code \in {"A", "B", "C"}}

ArriveApply(p) == \E req \in ApplyRequests : Start(p, req, MaxApplyCalls, NoPre)

NextApply ==
    \E p \in Procs :
        \/ ArriveApply(p)
        \/ FindOneOrder(p)
        \/ FindExisting(p)
        \/ ValidateVoucherStep(p)
        \/ ValidatePromotionStep(p)
        \/ TxInsert(p)
        \/ TxUpdateApply(p)
        \/ IncrementUsage(p)
        \/ Commit(p)
        \/ Respond(p)

SpecApply == Init /\ [][NextApply]_vars

\* two orders taking and releasing the same voucher, two handlers
MaxReleaseCalls == 5

ReleaseRequests ==
    {ApplyDiscount("c1", "o1", "B"), ApplyDiscount("c2", "o2", "B"),
     RemoveDiscount("c1", "o1", "B"), RemoveDiscount("c2", "o2", "B"),
     CancelOrder("c1", "o1")}

ArriveRelease(p) == \E req \in ReleaseRequests : Start(p, req, MaxReleaseCalls, NoPre)

NextRelease ==
    \E p \in Procs :
        \/ ArriveRelease(p)
        \/ FindOneOrder(p)
        \/ FindExisting(p)
        \/ ValidateVoucherStep(p)
        \/ ValidatePromotionStep(p)
        \/ TxInsert(p)
        \/ TxUpdateApply(p)
        \/ IncrementUsage(p)
        \/ FindDiscount(p)
        \/ TxDelete(p)
        \/ TxUpdateRemove(p)
        \/ TxStatus(p)
        \/ RuleFindOne(p)
        \/ DecrementRead(p)
        \/ DecrementWrite(p)
        \/ Commit(p)
        \/ Respond(p)

SpecRelease == Init /\ [][NextRelease]_vars

\* an admin deactivating or deleting voucher B while the owner of an order
\* applies and releases discounts, two handlers
MaxAdminCalls == 4

AdminRequests ==
    {Remove("VOUCHER", "B"), Update("VOUCHER", "B", [isActive |-> FALSE]),
     ApplyDiscount("c1", "o1", "B"), ApplyDiscount("c1", "o1", "A"),
     RemoveDiscount("c1", "o1", "B"), CancelOrder("c1", "o1")}

ArriveAdmin(p) == \E req \in AdminRequests : Start(p, req, MaxAdminCalls, NoPre)

NextAdmin ==
    \E p \in Procs :
        \/ ArriveAdmin(p)
        \/ FindOneOrder(p)
        \/ FindExisting(p)
        \/ ValidateVoucherStep(p)
        \/ ValidatePromotionStep(p)
        \/ TxInsert(p)
        \/ TxUpdateApply(p)
        \/ IncrementUsage(p)
        \/ FindDiscount(p)
        \/ TxDelete(p)
        \/ TxUpdateRemove(p)
        \/ TxStatus(p)
        \/ RuleFindOne(p)
        \/ DecrementRead(p)
        \/ DecrementWrite(p)
        \/ Commit(p)
        \/ AdminFindOne(p)
        \/ AdminUpdate(p)
        \/ AdminRemove(p)
        \/ Respond(p)

SpecAdmin == Init /\ [][NextAdmin]_vars

\* requests of the owners handled one after the other, each call keeping what
\* the call before it was and found (history): applications and removals only
MaxPairCalls == 4

PairRequests ==
    {ApplyDiscount(OwnerOf(o), o, code) : o \in OrderIds, code \in {"A", "B", "C"}}
    \cup {RemoveDiscount(OwnerOf(o), o, code) : o \in OrderIds,
                                                code \in {"A", "B", "C"}}

\* no call before this one
NoLast == [op |-> "none", oid |-> "", code |-> "", res |-> "", db |-> NoPre]

\* what a handler keeps of the call it has answered
LastCall(r) ==
    [op |-> r.op, oid |-> r.oid, code |-> ToUpper(r.code), res |-> r.res,
     db |-> [vouchers |-> r.pre.vouchers, promotions |-> r.pre.promotions,
             orders |-> r.pre.orders, discounts |-> r.pre.discounts]]

RespondKeep(p) ==
    /\ proc[p].pc = "done"
    /\ proc' = [proc EXCEPT ![p] =
                  [IdleProc EXCEPT !.pre = [last |-> LastCall(proc[p])]]]
    /\ UNCHANGED <<vouchers, promotions, orders, discounts, calls>>

ArrivePair ==
    \E req \in PairRequests :
        Start(1, req, MaxPairCalls,
              [vouchers |-> vouchers, promotions |-> promotions,
               orders |-> orders, discounts |-> discounts,
               last |-> IF proc[1].pre = NoPre THEN NoLast
                        ELSE proc[1].pre.last])

NextPair ==
    \/ ArrivePair
    \/ FindOneOrder(1)
    \/ FindExisting(1)
    \/ ValidateVoucherStep(1)
    \/ ValidatePromotionStep(1)
    \/ TxInsert(1)
    \/ TxUpdateApply(1)
    \/ IncrementUsage(1)
    \/ FindDiscount(1)
    \/ TxDelete(1)
    \/ TxUpdateRemove(1)
    \/ RuleFindOne(1)
    \/ DecrementRead(1)
    \/ DecrementWrite(1)
    \/ Commit(1)
    \/ RespondKeep(1)

SpecPair == Init /\ [][NextPair]_vars

\* requests of the owners handled one after the other when a promotion has
\* the code of a voucher (the two code columns are unique per table only):
\* promotion A, 10% on Electronics, one use
MaxDualCalls == 4

InitDual ==
    /\ vouchers = InitVouchers
    /\ promotions =
          [code \in PromotionCodes \cup {"A"} |->
              IF code = "A"
              THEN PromotionRow("PERCENTAGE", 10, 1, <<"electronics">>, <<>>)
              ELSE InitPromotions[code]]
    /\ orders = [o \in OrderIds |-> CreateOrder(o)]
    /\ discounts = {}
    /\ proc = [p \in Procs |-> IdleProc]
    /\ calls = 0

DualRequests ==
    {ApplyDiscount(OwnerOf(o), o, code) : o \in OrderIds, code \in InputCodes}

ArriveDual == \E req \in DualRequests : Start(1, req, MaxDualCalls, Database)

NextDual ==
    \/ ArriveDual
    \/ FindOneOrder(1)
    \/ FindExisting(1)
    \/ ValidateVoucherStep(1)
    \/ ValidatePromotionStep(1)
    \/ TxInsert(1)
    \/ TxUpdateApply(1)
    \/ IncrementUsage(1)
    \/ Commit(1)
    \/ Respond(1)

SpecDual == InitDual /\ [][NextDual]_vars

\* requests of the admin on promotions handled concurrently by two handlers:
\* updates of promotion C replacing one list or both, creations of D
MaxPromoCalls == 4

NewPromotion == [discountType |-> "PERCENTAGE", discountValue |-> 10,
                 usageLimit |-> 1, expired |-> FALSE]

PromoRequests ==
    {Update("PROMOTION", "C", dto) :
        dto \in {[eligibleCategories |-> <<>>],
                 [eligibleItems |-> <<>>],
                 [eligibleItems |-> <<"p3">>],
                 [eligibleCategories |-> <<"Books">>],
                 [eligibleCategories |-> <<>>, eligibleItems |-> <<>>]}}
    \cup {Create("PROMOTION", "D", dto) :
            dto \in {NewPromotion,
                     [c \in DOMAIN NewPromotion \cup {"eligibleItems"} |->
                         IF c = "eligibleItems" THEN <<>> ELSE NewPromotion[c]],
                     [c \in DOMAIN NewPromotion \cup {"eligibleItems"} |->
                         IF c = "eligibleItems" THEN <<"p1">>
                         ELSE NewPromotion[c]]}}

ArrivePromo(p) == \E req \in PromoRequests : Start(p, req, MaxPromoCalls, NoPre)

NextPromo ==
    \E p \in Procs :
        \/ ArrivePromo(p)
        \/ AdminFindOne(p)
        \/ AdminUpdate(p)
        \/ AdminCreateCheck(p)
        \/ AdminCreateInsert(p)
        \/ Respond(p)

SpecPromo == Init /\ [][NextPromo]_vars

\* applications handled one after the other, voucher A being in any state an
\* admin can have left it in: deactivated, expired, soft-deleted (which
\* deactivates), with or without a minimum order value
MaxValidateCalls == 3

MinOrderValues == {Null, 101, 110}

InitValidate ==
    /\ \E active \in BOOLEAN, expired \in BOOLEAN, deleted \in BOOLEAN,
          minOrder \in MinOrderValues :
          /\ deleted => ~active
          /\ vouchers =
                [InitVouchers EXCEPT
                    !["A"] = [@ EXCEPT !.isActive = active,
                                       !.expired = expired,
                                       !.deleted = deleted,
                                       !.minOrderValue = minOrder]]
    /\ promotions = InitPromotions
    /\ orders = [o \in OrderIds |-> CreateOrder(o)]
    /\ discounts = {}
    /\ proc = [p \in Procs |-> IdleProc]
    /\ calls = 0

ValidateRequests ==
    {ApplyDiscount(OwnerOf(o), o, code) : o \in OrderIds, code \in InputCodes}

ArriveValidate ==
    \E req \in ValidateRequests : Start(1, req, MaxValidateCalls, NoPre)

NextValidate ==
    \/ ArriveValidate
    \/ FindOneOrder(1)
    \/ FindExisting(1)
    \/ ValidateVoucherStep(1)
    \/ ValidatePromotionStep(1)
    \/ TxInsert(1)
    \/ TxUpdateApply(1)
    \/ IncrementUsage(1)
    \/ Commit(1)
    \/ Respond(1)

SpecValidate == InitValidate /\ [][NextValidate]_vars

\* applications handled one after the other, promotion C having any
\* eligibility an admin can give it (one list may be empty, not both)
MaxEligibleCalls == 3

CategoryLists == {<<>>, <<"Books">>, <<"BOOKS">>, <<"electronics">>,
                  <<"Toys", "books">>}
ItemLists == {<<>>, <<"p1">>, <<"p3">>, <<"p3", "p1">>}

InitEligible ==
    /\ vouchers = InitVouchers
    /\ \E cats \in CategoryLists, items \in ItemLists :
          /\ Len(cats) > 0 \/ Len(items) > 0
          /\ promotions =
                [InitPromotions EXCEPT
                    !["C"] = [@ EXCEPT !.eligibleCategories = cats,
                                       !.eligibleItems = items]]
    /\ orders = [o \in OrderIds |-> CreateOrder(o)]
    /\ discounts = {}
    /\ proc = [p \in Procs |-> IdleProc]
    /\ calls = 0

EligibleRequests ==
    {ApplyDiscount(OwnerOf(o), o, code) : o \in OrderIds, code \in {"B", "C"}}

ArriveEligible ==
    \E req \in EligibleRequests : Start(1, req, MaxEligibleCalls, NoPre)

NextEligible ==
    \/ ArriveEligible
    \/ FindOneOrder(1)
    \/ FindExisting(1)
    \/ ValidateVoucherStep(1)
    \/ ValidatePromotionStep(1)
    \/ TxInsert(1)
    \/ TxUpdateApply(1)
    \/ IncrementUsage(1)
    \/ Commit(1)
    \/ Respond(1)

SpecEligible == InitEligible /\ [][NextEligible]_vars

\* the life of the orders from an empty Order table: orders created, then
\* discounts applied and removed and orders cancelled, one call after the
\* other
MaxLifeCalls == 5

\* no row of that id: findOne finds nothing for any caller
NoOrder == [customerId |-> "", subtotal |-> 0, totalDiscount |-> 0,
            finalTotal |-> 0, status |-> "NONE"]

InitLife ==
    /\ vouchers = InitVouchers
    /\ promotions = InitPromotions
    /\ orders = [o \in OrderIds |-> NoOrder]
    /\ discounts = {}
    /\ proc = [p \in Procs |-> IdleProc]
    /\ calls = 0

\* POST /orders: OrdersService.create, one prisma.order.create
OrdersCreate ==
    \E o \in OrderIds :
        /\ At(1, "idle")
        /\ calls < MaxLifeCalls
        /\ orders[o] = NoOrder
        /\ calls' = calls + 1
        /\ orders' = [orders EXCEPT ![o] = CreateOrder(o)]
        /\ UNCHANGED <<vouchers, promotions, discounts, proc>>

LifeRequests ==
    {ApplyDiscount(OwnerOf(o), o, code) : o \in OrderIds, code \in {"A", "B", "C"}}
    \cup {RemoveDiscount(OwnerOf(o), o, code) : o \in OrderIds,
                                                code \in {"A", "B", "C"}}
    \cup {CancelOrder(OwnerOf(o), o) : o \in OrderIds}

ArriveLife == \E req \in LifeRequests : Start(1, req, MaxLifeCalls, NoPre)

NextLife ==
    \/ OrdersCreate
    \/ ArriveLife
    \/ FindOneOrder(1)
    \/ FindExisting(1)
    \/ ValidateVoucherStep(1)
    \/ ValidatePromotionStep(1)
    \/ TxInsert(1)
    \/ TxUpdateApply(1)
    \/ IncrementUsage(1)
    \/ FindDiscount(1)
    \/ TxDelete(1)
    \/ TxUpdateRemove(1)
    \/ TxStatus(1)
    \/ RuleFindOne(1)
    \/ DecrementRead(1)
    \/ DecrementWrite(1)
    \/ Commit(1)
    \/ Respond(1)

SpecLife == InitLife /\ [][NextLife]_vars

\* two orders with the same cart (p4, 250) and vouchers of any value,
\* applied one after the other: A is a percentage, B a fixed amount
MaxTwinCalls == 4

TwinIds == {"o3", "o4"}
PercentValues == {5, 20, 100}
FixedValues == {2, 120, 300}

InitTwin ==
    /\ \E percent \in PercentValues, fixed \in FixedValues :
          vouchers = [code \in VoucherCodes |->
                         IF code = "A"
                         THEN VoucherRow("PERCENTAGE", percent, 2, Null)
                         ELSE VoucherRow("FIXED", fixed, 2, Null)]
    /\ promotions = InitPromotions
    /\ orders = [o \in TwinIds |-> CreateOrder(o)]
    /\ discounts = {}
    /\ proc = [p \in Procs |-> IdleProc]
    /\ calls = 0

TwinRequests ==
    {ApplyDiscount(OwnerOf(o), o, code) : o \in TwinIds, code \in VoucherCodes}

ArriveTwin == \E req \in TwinRequests : Start(1, req, MaxTwinCalls, NoPre)

NextTwin ==
    \/ ArriveTwin
    \/ FindOneOrder(1)
    \/ FindExisting(1)
    \/ ValidateVoucherStep(1)
    \/ ValidatePromotionStep(1)
    \/ TxInsert(1)
    \/ TxUpdateApply(1)
    \/ IncrementUsage(1)
    \/ Commit(1)
    \/ Respond(1)

SpecTwin == InitTwin /\ [][NextTwin]_vars

\* applications handled one after the other, promotion C being of either
\* type, of any value, on some of the categories
MaxAmountCalls == 3

PromotionValues == {10, 30, 70, 100}
AmountCategories == {<<"Books">>, <<"electronics">>, <<"books", "Electronics">>}

InitAmount ==
    /\ vouchers = InitVouchers
    /\ \E type \in {"PERCENTAGE", "FIXED"}, value \in PromotionValues,
          cats \in AmountCategories :
          promotions = [code \in PromotionCodes |->
                           PromotionRow(type, value, 2, cats, <<>>)]
    /\ orders = [o \in OrderIds |-> CreateOrder(o)]
    /\ discounts = {}
    /\ proc = [p \in Procs |-> IdleProc]
    /\ calls = 0

AmountRequests ==
    {ApplyDiscount(OwnerOf(o), o, code) : o \in OrderIds, code \in {"B", "C"}}

ArriveAmount == \E req \in AmountRequests : Start(1, req, MaxAmountCalls, NoPre)

NextAmount ==
    \/ ArriveAmount
    \/ FindOneOrder(1)
    \/ FindExisting(1)
    \/ ValidateVoucherStep(1)
    \/ ValidatePromotionStep(1)
    \/ TxInsert(1)
    \/ TxUpdateApply(1)
    \/ IncrementUsage(1)
    \/ Commit(1)
    \/ Respond(1)

SpecAmount == InitAmount /\ [][NextAmount]_vars

-----------------------------------------------------------------------------
(* Properties of calls that do not overlap (SpecSeq) *)

RECURSIVE SumAmounts(_)
SumAmounts(ds) ==
    IF ds = {} THEN 0
    ELSE LET d == CHOOSE x \in ds : TRUE
         IN  d.discountAmount + SumAmounts(ds \ {d})

\* C1: between calls that do not overlap, the totalDiscount of every order is
\* the sum of the discountAmount of the OrderDiscount records on it
C1_TotalIsSumOfRecords ==
    proc[1].pc = "idle" =>
        \A o \in OrderIds :
            orders[o].totalDiscount = SumAmounts(OrderDiscountsOf(o))

\* C2: in every state the totalDiscount of an order is at most half its
\* subtotal, rounded to the cent (amounts in cents: 2 * total <= subtotal + 1)
C2_TotalWithinCap ==
    \A o \in OrderIds : 2 * orders[o].totalDiscount <= orders[o].subtotal + 1

\* an order carries two discounts, the second cut down to the cap
C2_CapReached ==
    \E o \in OrderIds :
        /\ Cardinality(OrderDiscountsOf(o)) >= 2
        /\ 2 * orders[o].totalDiscount >= orders[o].subtotal

\* C7 as stated: the owner applying a code the order already carries
\* (whatever its spelling) always gets DuplicateCode, and nothing is committed
C7_DuplicateAlwaysConflict ==
    (/\ proc[1].pc = "done" /\ proc[1].op = "apply" /\ proc[1].had
     /\ proc[1].cust = orders[proc[1].oid].customerId)
        => (proc[1].res = "DuplicateCode" /\ ~proc[1].dirty)

\* C7 amended: applying, as the owner of a PENDING order, a code the order
\* already carries returns DuplicateCode; and whoever the caller and
\* whatever the status, the call commits nothing
C7_DuplicateConflictOnPending ==
    (proc[1].pc = "done" /\ proc[1].op = "apply" /\ proc[1].had)
        => /\ ~proc[1].dirty
           /\ proc[1].res # "ok"
           /\ (proc[1].cust = orders[proc[1].oid].customerId
               /\ orders[proc[1].oid].status = "PENDING")
                 => proc[1].res = "DuplicateCode"

\* the code typed in lower case is refused on a PENDING order that carries
\* it and another code
C7_LowerCaseDuplicateRefused ==
    /\ proc[1].pc = "done" /\ proc[1].op = "apply" /\ proc[1].had
    /\ proc[1].code = "a" /\ proc[1].res = "DuplicateCode"
    /\ orders[proc[1].oid].status = "PENDING"
    /\ Cardinality(OrderDiscountsOf(proc[1].oid)) >= 2

-----------------------------------------------------------------------------
(* Properties of overlapping applyDiscount calls (SpecApply) *)

Rule(code) == IF code \in VoucherCodes THEN vouchers[code] ELSE promotions[code]

RecordsOf(code) == {d \in discounts : d.discountCode = code}

\* C3: under any interleaving of applyDiscount calls no rule is used beyond
\* its usageLimit; of the calls applying voucher A (usageLimit 1) to
\* different orders one only gets its record, and a call that ends without
\* the voucher on its order, on an order with room under the cap, failed
\* with VersionConflict (Conflict) or UsageLimitReached (RuleUnusable) while
\* the usage stands at 1
C3_OneWinnerPerUse ==
    /\ \A code \in VoucherCodes \cup PromotionCodes :
          /\ Rule(code).currentUsage <= Rule(code).usageLimit
          /\ Cardinality(RecordsOf(code)) <= Rule(code).usageLimit
    /\ \A p \in Procs :
          (/\ proc[p].pc = "done" /\ proc[p].op = "apply"
           /\ proc[p].code = "A" /\ ~Applied(proc[p].oid, "A"))
             => \/ proc[p].res = "CapExhausted"
                \/ /\ proc[p].res \in {"VersionConflict", "UsageLimitReached"}
                   /\ vouchers["A"].currentUsage = 1

\* of two overlapping calls for voucher A on different orders one has its
\* record and the other was refused by the version check
C3_LoserOfVersionRace ==
    \E p \in Procs :
        /\ proc[p].pc = "done" /\ proc[p].op = "apply" /\ proc[p].code = "A"
        /\ proc[p].res = "VersionConflict"
        /\ vouchers["A"].currentUsage = 1
        /\ \E o \in OrderIds \ {proc[p].oid} : Applied(o, "A")

\* C4: in every state each rule's persisted usage count matches the
\* OrderDiscount records persisted for it (applyDiscount calls only): no
\* increment without its record, no record without its increment
C4_ApplyWritesAllOrNothing ==
    \A code \in VoucherCodes \cup PromotionCodes :
        Rule(code).currentUsage = Cardinality(RecordsOf(code))

\* C6: an (order, code) pair never has two records, once all calls are over
\* each rule was incremented once per record, and a call whose insert meets
\* the committed row of the same (order, code) ends with DuplicateCode
C6_LoserGetsDuplicateCode ==
    /\ [](\A o \in OrderIds, code \in VoucherCodes \cup PromotionCodes :
            Cardinality({d \in RecordsOf(code) : d.orderId = o}) <= 1)
    /\ []((\A p \in Procs : proc[p].pc = "idle") =>
            \A code \in VoucherCodes \cup PromotionCodes :
                Rule(code).currentUsage = Cardinality(RecordsOf(code)))
    /\ [][\A p \in Procs :
            (proc[p].pc = "tx_insert" /\ proc'[p].pc \in {"findOne", "done"})
              => \/ proc'[p].pc = "findOne" /\ proc'[p].verr = "DuplicateCode"
                 \/ proc'[p].pc = "done" /\ proc'[p].res = "DuplicateCode"]_vars

-----------------------------------------------------------------------------
(* Properties of overlapping calls on orders and rules *)

\* C5: once the overlapping applyDiscount / removeDiscount calls on an order
\* have all committed, its totalDiscount is the sum of the discountAmount of
\* its records and within half the subtotal (Spec)
C5_OverlappingCallsSerialise ==
    (\A p \in Procs : proc[p].pc = "idle") =>
        \A o \in OrderIds :
            /\ orders[o].totalDiscount = SumAmounts(OrderDiscountsOf(o))
            /\ 2 * orders[o].totalDiscount <= orders[o].subtotal + 1

\* C8: an applyDiscount, removeDiscount or cancelOrder call that returns an
\* error has committed no write (SpecAdmin)
C8_ErrorsCommitNothing ==
    \A p \in Procs :
        (/\ proc[p].pc = "done"
         /\ proc[p].op \in {"apply", "removeDiscount", "cancel"}
         /\ proc[p].res # "ok")
           => ~proc[p].dirty

\* C9: the currentUsage of every voucher and promotion is never negative
\* (SpecRelease)
C9_UsageNeverNegative ==
    \A code \in VoucherCodes \cup PromotionCodes : Rule(code).currentUsage >= 0

\* C10: a removeDiscount or a cancelOrder never ends with an error about the
\* state of the rule behind a discount (SpecAdmin)
C10_ReleaseIgnoresRuleState ==
    \A p \in Procs :
        (proc[p].pc = "done" /\ proc[p].op \in {"removeDiscount", "cancel"})
           => proc[p].res \notin {"RuleNotFound", "VersionConflict", "Inactive",
                                  "Expired", "UsageLimitReached"}

-----------------------------------------------------------------------------
\* the calls that have returned, with the tables as they found them
Returned(op) ==
    {p \in Procs : proc[p].pc = "done" /\ proc[p].op = op
                                       /\ proc[p].pre # NoPre}

\* the records of a rule (of a kind, by code) among `ds`, on order o
Held(ds, o, kind, code) ==
    {d \in ds : d.orderId = o /\ d.discountType = kind /\ d.discountCode = code}

\* the records of a rule on the orders that are PENDING
HeldOnPending(kind, code) ==
    {d \in discounts : /\ d.discountType = kind /\ d.discountCode = code
                       /\ orders[d.orderId].status = "PENDING"}

\* C11: a cancelOrder that succeeds found the order PENDING and has taken
\* from the currentUsage of every voucher and promotion exactly one per
\* discount record of that rule the order carried (the table by the record's
\* discountType); between calls the currentUsage of a rule is the number of
\* its records on PENDING orders, so the cancelled order's applications are
\* given back and nothing else (SpecSeq: calls one after the other)
C11_CancelReleasesEachRule ==
    /\ \A p \in Returned("cancel") :
          LET r == proc[p]
          IN  r.res = "ok" =>
                /\ r.pre.orders[r.oid].status = "PENDING"
                /\ orders[r.oid].status = "CANCELLED"
                /\ \A code \in VoucherCodes :
                      vouchers[code].currentUsage =
                         r.pre.vouchers[code].currentUsage
                         - Cardinality(Held(r.pre.discounts, r.oid,
                                            "VOUCHER", code))
                /\ \A code \in PromotionCodes :
                      promotions[code].currentUsage =
                         r.pre.promotions[code].currentUsage
                         - Cardinality(Held(r.pre.discounts, r.oid,
                                            "PROMOTION", code))
    /\ (\A p \in Procs : proc[p].pc \in {"idle", "done"}) =>
          /\ \A code \in VoucherCodes :
                vouchers[code].currentUsage =
                   Cardinality(HeldOnPending("VOUCHER", code))
          /\ \A code \in PromotionCodes :
                promotions[code].currentUsage =
                   Cardinality(HeldOnPending("PROMOTION", code))

\* a cancelOrder has succeeded on an order that carried a voucher and a
\* promotion, both used once before and unused after
C11_CancelledWithTwoDiscounts ==
    \E p \in Returned("cancel") :
        LET r == proc[p]
        IN  /\ r.res = "ok"
            /\ Held(r.pre.discounts, r.oid, "VOUCHER", "B") # {}
            /\ Held(r.pre.discounts, r.oid, "PROMOTION", "C") # {}
            /\ r.pre.vouchers["B"].currentUsage = 1
            /\ r.pre.promotions["C"].currentUsage = 1
            /\ vouchers["B"].currentUsage = 0
            /\ promotions["C"].currentUsage = 0

-----------------------------------------------------------------------------
\* the removals that succeeded right after a successful application of the
\* same code to the same order
UndoingRemovals ==
    {p \in Returned("removeDiscount") :
        /\ proc[p].res = "ok"
        /\ proc[p].pre.last.op = "apply" /\ proc[p].pre.last.res = "ok"
        /\ proc[p].pre.last.oid = proc[p].oid
        /\ proc[p].pre.last.code = ToUpper(proc[p].code)}

\* C12: a removeDiscount that succeeds leaves totalDiscount at its value
\* before the call minus the amount stored on the record it deleted; and when
\* it follows the successful applyDiscount of the same code on the same order
\* it leaves the order's totalDiscount, finalTotal and discount records and
\* every rule's currentUsage as they were before that application (SpecPair)
C12_RemoveUndoesApply ==
    /\ \A p \in Returned("removeDiscount") :
          LET r == proc[p]
          IN  r.res = "ok" =>
                \E d \in Held(r.pre.discounts, r.oid, "VOUCHER", ToUpper(r.code))
                       \cup Held(r.pre.discounts, r.oid, "PROMOTION",
                                 ToUpper(r.code)) :
                    /\ d \notin discounts
                    /\ orders[r.oid].totalDiscount =
                          r.pre.orders[r.oid].totalDiscount - d.discountAmount
    /\ \A p \in UndoingRemovals :
          LET r == proc[p]
              before == r.pre.last.db
          IN  /\ orders[r.oid].totalDiscount = before.orders[r.oid].totalDiscount
              /\ orders[r.oid].finalTotal = before.orders[r.oid].finalTotal
              /\ discounts = before.discounts
              /\ \A code \in VoucherCodes :
                    vouchers[code].currentUsage =
                       before.vouchers[code].currentUsage
              /\ \A code \in PromotionCodes :
                    promotions[code].currentUsage =
                       before.promotions[code].currentUsage

-----------------------------------------------------------------------------
\* C13: an applyDiscount or removeDiscount by the owner of an order that was
\* CONFIRMED or CANCELLED when the call arrived ends with InvalidState,
\* whatever the code, and leaves every table as it was: no discount added
\* or removed (SpecSeq)
C13_NotPendingRefused ==
    \A p \in Returned("apply") \cup Returned("removeDiscount") :
        LET r == proc[p]
        IN  (r.cust = OwnerOf(r.oid) /\ r.pre.orders[r.oid].status # "PENDING")
               => /\ r.res = "InvalidState"
                  /\ discounts = r.pre.discounts
                  /\ orders = r.pre.orders
                  /\ vouchers = r.pre.vouchers
                  /\ promotions = r.pre.promotions

\* the owner asked to remove a discount that a CANCELLED order carries and
\* got InvalidState
C13_RemoveOnCancelledRefused ==
    \E p \in Returned("removeDiscount") :
        LET r == proc[p]
        IN  /\ r.cust = OwnerOf(r.oid) /\ r.had
            /\ r.pre.orders[r.oid].status = "CANCELLED"
            /\ r.res = "InvalidState"

-----------------------------------------------------------------------------
\* C14: in every step, under any interleaving, an order whose status changes
\* was PENDING, becomes CANCELLED, and the step is the commit of a cancelOrder
\* on it (so CONFIRMED and CANCELLED are never left); and a cancelOrder of
\* the owner that reads its order as CONFIRMED or CANCELLED ends there with
\* InvalidState, nothing written (Spec)
C14_StatusOnlyByCancel ==
    [][/\ \A o \in DOMAIN orders :
             orders'[o].status # orders[o].status =>
                /\ orders[o].status = "PENDING"
                /\ orders'[o].status = "CANCELLED"
                /\ \E p \in Procs :
                      /\ proc[p].op = "cancel" /\ proc[p].oid = o
                      /\ proc[p].pc = "commit" /\ proc'[p].res = "ok"
       /\ \A p \in Procs :
             (/\ proc[p].op = "cancel" /\ proc[p].pc = "findOne"
              /\ proc'[p].pc # "findOne"
              /\ proc[p].cust = OwnerOf(proc[p].oid)
              /\ orders[proc[p].oid].status # "PENDING")
                => /\ proc'[p].pc = "done"
                   /\ proc'[p].res = "InvalidState"
                   /\ ~proc'[p].dirty
                   /\ UNCHANGED <<vouchers, promotions, orders, discounts>>
      ]_vars

\* a cancelOrder on an order that is CANCELLED has ended with InvalidState
\* while the seeded order is still CONFIRMED
C14_CancelOfCancelledRefused ==
    \E p \in Procs :
        /\ proc[p].pc = "done" /\ proc[p].op = "cancel"
        /\ proc[p].res = "InvalidState" /\ ~proc[p].dirty
        /\ orders[proc[p].oid].status = "CANCELLED"
        /\ \A o \in SeededIds : orders[o].status = "CONFIRMED"

-----------------------------------------------------------------------------
\* the row behind the rule a handler holds, as it is now
RowNow(p) == Table(proc[p].kind)[proc[p].rule.code]

\* C15: under any interleaving, an incrementUsage or an admin update that
\* finds its row changed by another writer since it was read leaves the row
\* alone and fails with VersionConflict; the applyDiscount then drops its
\* buffered OrderDiscount and order update, and a call whose voucher attempt
\* met VersionConflict ends with VersionConflict (SpecAdmin)
C15_StaleWriterFails ==
    /\ [][\A p \in Procs :
             (/\ proc[p].pc \in {"increment", "adm_update"}
              /\ proc'[p].pc # proc[p].pc
              /\ RowNow(p) # proc[p].seen)
                => /\ UNCHANGED <<vouchers, promotions, orders, discounts>>
                   /\ proc'[p].txIns = {} /\ proc'[p].txOrd = {}
                   /\ IF proc[p].op = "apply"
                      THEN proc'[p].verr = "VersionConflict"
                      ELSE proc'[p].res = "VersionConflict"]_vars
    /\ [](\A p \in Procs :
             (/\ proc[p].pc = "done" /\ proc[p].op = "apply"
              /\ proc[p].verr = "VersionConflict")
                => proc[p].res = "VersionConflict")

-----------------------------------------------------------------------------
\* C16: under any interleaving of remove with applyDiscount, a voucher or
\* promotion that is soft-deleted has currentUsage 0, and a remove refused
\* because the rule is in use has written nothing (SpecAdmin)
C16_DeletedOnlyWhenUnused ==
    /\ \A code \in VoucherCodes \cup PromotionCodes :
          Rule(code).deleted => Rule(code).currentUsage = 0
    /\ \A p \in Procs :
          (proc[p].pc = "done" /\ proc[p].op = "remove" /\ proc[p].res = "InUse")
             => ~proc[p].dirty

-----------------------------------------------------------------------------
\* the usage counters of a table, by code
Usages(table) == [code \in DOMAIN table |-> table[code].currentUsage]

\* C17: an applyDiscount that succeeds has added one OrderDiscount, of the
\* code on the order, and one use of the rule of that type and code: a
\* VOUCHER when the voucher attempt did not fail, a PROMOTION (with every
\* voucher untouched) when it did; one that fails has added nothing and
\* returns the error of the voucher attempt (SpecDual)
C17_VoucherFirstThenPromotion ==
    \A p \in Returned("apply") :
        LET r == proc[p]
            code == ToUpper(r.code)
            added == discounts \ r.pre.discounts
        IN  IF r.res = "ok"
            THEN /\ discounts \ added = r.pre.discounts
                 /\ Cardinality(added) = 1
                 /\ \A d \in added :
                       /\ d.orderId = r.oid /\ d.discountCode = code
                       /\ d.discountType = r.kind
                 /\ r.kind = IF r.verr = "" THEN "VOUCHER" ELSE "PROMOTION"
                 /\ IF r.kind = "VOUCHER"
                    THEN /\ Usages(promotions) = Usages(r.pre.promotions)
                         /\ Usages(vouchers) =
                              [Usages(r.pre.vouchers) EXCEPT ![code] = @ + 1]
                    ELSE /\ Usages(vouchers) = Usages(r.pre.vouchers)
                         /\ Usages(promotions) =
                              [Usages(r.pre.promotions) EXCEPT ![code] = @ + 1]
            ELSE /\ r.res = r.verr /\ r.verr # ""
                 /\ discounts = r.pre.discounts
                 /\ Usages(vouchers) = Usages(r.pre.vouchers)
                 /\ Usages(promotions) = Usages(r.pre.promotions)

\* code A was refused as a voucher (its one use is taken) and applied as the
\* promotion of the same code
C17_PromotionAfterVoucherFailed ==
    \E p \in Returned("apply") :
        LET r == proc[p]
        IN  /\ r.res = "ok" /\ r.kind = "PROMOTION"
            /\ r.verr = "UsageLimitReached" /\ ToUpper(r.code) = "A"
            /\ Held(discounts, r.oid, "PROMOTION", "A") # {}
            /\ Held(discounts, r.oid, "VOUCHER", "A") = {}

-----------------------------------------------------------------------------
\* C18: under any interleaving of updates and creations, every promotion
\* has a category or an item to be eligible on, and a creation naming
\* neither has failed with InvalidInput and written nothing (SpecPromo)
C18_EligibilityNeverEmpty ==
    /\ \A code \in DOMAIN promotions :
          \/ Len(promotions[code].eligibleCategories) > 0
          \/ Len(promotions[code].eligibleItems) > 0
    /\ \A p \in Procs :
          (/\ proc[p].pc = "done" /\ proc[p].op = "create"
           /\ Len(ListOf(proc[p].dto, "eligibleCategories")) = 0
           /\ Len(ListOf(proc[p].dto, "eligibleItems")) = 0)
             => proc[p].res = "InvalidInput" /\ ~proc[p].dirty

\* promotion C is left with items only, and the update that would have
\* emptied the items, checked against the row that still had categories,
\* met the version conflict
C18_SecondEmptyingRefused ==
    \E p \in Procs :
        /\ proc[p].pc = "done" /\ proc[p].op = "update"
        /\ proc[p].dto = [eligibleItems |-> <<>>]
        /\ proc[p].res = "VersionConflict"
        /\ Len(promotions["C"].eligibleCategories) = 0
        /\ Len(promotions["C"].eligibleItems) > 0

-----------------------------------------------------------------------------
\* the checks of a voucher code against an order value, in the order of the
\* claim: <<passes, error when it does not>>
VoucherChecks(code, orderValue) ==
    LET known == \E c \in DOMAIN vouchers : c = ToUpper(code) /\ ~vouchers[c].deleted
        v == IF known THEN vouchers[ToUpper(code)] ELSE VoucherRow("", 0, 0, Null)
    IN  << <<known, "RuleNotFound">>,
           <<v.isActive, "Inactive">>,
           <<~v.expired, "Expired">>,
           <<v.currentUsage < v.usageLimit, "UsageLimitReached">>,
           <<v.minOrderValue = Null \/ orderValue >= v.minOrderValue,
             "BelowMinOrder">> >>

\* the checks that fail, by position
Failing(checks) == {i \in DOMAIN checks : ~checks[i][1]}

\* C19: the step of applyVoucher that calls validateVoucher goes on with the
\* voucher row (to the cap and the transaction) exactly when the code,
\* upper-cased, is a voucher that is not deleted, active, not expired, used
\* less than usageLimit and, if minOrderValue is set, at most the order's
\* subtotal; otherwise the attempt ends with the error of the first of
\* these checks that fails; the step writes nothing (SpecValidate)
C19_ValidateVoucher ==
    [][\A p \in Procs :
          (/\ proc[p].pc = "validate" /\ proc[p].kind = "VOUCHER"
           /\ proc'[p] # proc[p])
             => LET r == proc[p]
                    checks == VoucherChecks(r.code, r.ord.subtotal)
                    first == CHOOSE i \in Failing(checks) :
                                 \A j \in Failing(checks) : i <= j
                IN  /\ UNCHANGED <<vouchers, promotions, orders, discounts>>
                    /\ IF Failing(checks) = {}
                       THEN \/ /\ proc'[p].pc = "tx_insert"
                               /\ proc'[p].seen = vouchers[ToUpper(r.code)]
                            \/ proc'[p].verr = "CapExhausted"
                       ELSE /\ proc'[p].verr = checks[first][2]
                            /\ proc'[p].pc = "findOne"
                            /\ proc'[p].txIns = {}
      ]_vars

\* voucher A, active, not expired and unused, was refused for an order
\* below its minimum order value, typed in lower case
C19_BelowMinOrderIsLast ==
    \E p \in Procs :
        /\ proc[p].pc = "done" /\ proc[p].op = "apply" /\ proc[p].code = "a"
        /\ proc[p].res = "BelowMinOrder"
        /\ vouchers["A"].isActive /\ ~vouchers["A"].expired
        /\ ~vouchers["A"].deleted
        /\ vouchers["A"].currentUsage < vouchers["A"].usageLimit
        /\ vouchers["A"].minOrderValue > orders[proc[p].oid].subtotal

-----------------------------------------------------------------------------
\* an item is eligible by its category, whatever the case of the letters on
\* either side, or by its productId
Eligible(promotion, item) ==
    \/ \E cat \in Range(promotion.eligibleCategories) :
          ToLower(cat) = ToLower(item.category)
    \/ \E id \in Range(promotion.eligibleItems) : id = item.productId

\* the eligible items in the order of the cart: the k-th of them is the item
\* at the k-th smallest eligible position
EligibleItems(promotion, orderItems) ==
    LET at == {i \in 1..Len(orderItems) : Eligible(promotion, orderItems[i])}
        nth(k) == CHOOSE i \in at : Cardinality({j \in at : j <= i}) = k
    IN  [k \in 1..Cardinality(at) |-> orderItems[nth(k)]]

\* C20: for every promotion and every cart checkEligibility returns the
\* eligible items (by category whatever the case, or by productId) in the
\* order of the cart; and the step of applyPromotion that calls it, on a
\* promotion that passed validatePromotion, fails with NoEligibleItems and
\* writes nothing when no item is eligible, and otherwise goes on with the
\* discount calculated on the eligible items (SpecEligible)
C20_EligibleItems ==
    /\ [](\A code \in DOMAIN promotions, o \in OrderIds :
             checkEligibility(promotions[code], CartOf(o)) =
                EligibleItems(promotions[code], CartOf(o)))
    /\ [][\A p \in Procs :
             (/\ proc[p].pc = "validate" /\ proc[p].kind = "PROMOTION"
              /\ proc'[p] # proc[p]
              /\ validatePromotion(proc[p].code) = "")
                => LET r == proc[p]
                       promotion == promotions[ToUpper(r.code)]
                       items == EligibleItems(promotion, CartOf(r.oid))
                       capped == enforceDiscountCap(
                                    Units(r.ord.subtotal),
                                    Units(r.ord.totalDiscount),
                                    calculatePromotionDiscount(promotion, items))
                   IN  /\ UNCHANGED <<vouchers, promotions, orders, discounts>>
                       /\ IF Len(items) = 0
                          THEN /\ proc'[p].pc = "done"
                               /\ proc'[p].perr = "NoEligibleItems"
                               /\ proc'[p].res = r.verr
                          ELSE IF capped.throws
                          THEN proc'[p].perr = "CapExhausted"
                          ELSE /\ proc'[p].pc = "tx_insert"
                               /\ proc'[p].amount = capped.value
          ]_vars

\* promotion C names categories and items, none of them in the cart of the
\* order, and its application failed with NoEligibleItems
C20_NothingEligible ==
    \E p \in Procs :
        /\ proc[p].pc = "done" /\ proc[p].op = "apply"
        /\ proc[p].perr = "NoEligibleItems"
        /\ Len(promotions["C"].eligibleCategories) > 0
        /\ Len(promotions["C"].eligibleItems) > 0
        /\ EligibleItems(promotions["C"], CartOf(proc[p].oid)) = <<>>

-----------------------------------------------------------------------------
\* a rule row without its usage counter and the version that goes with it
Settings(row) ==
    [f \in DOMAIN row \ {"currentUsage", "version"} |-> row[f]]

\* C21: under any interleaving, a step of a cancelOrder leaves every
\* OrderDiscount record where it is, changes of the orders at most the status
\* of its own (subtotal, totalDiscount and finalTotal stay; the items are
\* never written), and changes of the vouchers and promotions at most the
\* usage counter with its version (Spec)
C21_CancelFrame ==
    [][\A p \in Procs :
          (proc[p].op = "cancel" /\ proc'[p] # proc[p])
             => /\ discounts' = discounts
                /\ \A o \in DOMAIN orders :
                      orders'[o] = IF o = proc[p].oid
                                   THEN [orders[o] EXCEPT
                                            !.status = orders'[o].status]
                                   ELSE orders[o]
                /\ \A code \in DOMAIN vouchers :
                      Settings(vouchers'[code]) = Settings(vouchers[code])
                /\ \A code \in DOMAIN promotions :
                      Settings(promotions'[code]) = Settings(promotions[code])
      ]_vars

\* an order was cancelled with a discount on it: it is CANCELLED, still
\* carries the record and the totals of the discount, and the voucher is
\* free again
C21_CancelledKeepsTotals ==
    \E p \in Procs :
        /\ proc[p].pc = "done" /\ proc[p].op = "cancel" /\ proc[p].res = "ok"
        /\ orders[proc[p].oid].status = "CANCELLED"
        /\ orders[proc[p].oid].totalDiscount > 0
        /\ orders[proc[p].oid].finalTotal < orders[proc[p].oid].subtotal
        /\ \E d \in OrderDiscountsOf(proc[p].oid) :
              /\ d.discountAmount = orders[proc[p].oid].totalDiscount
              /\ Rule(d.discountCode).currentUsage = 0

-----------------------------------------------------------------------------
\* C22: whenever no call is running, after any sequence of createOrder,
\* applyDiscount, removeDiscount and cancelOrder calls from unused rules and
\* an empty Order table, the currentUsage of every voucher is the number of
\* VOUCHER records of its code on PENDING orders, and that of every promotion
\* the number of PROMOTION records of its code on PENDING orders (SpecLife)
C22_UsageCountsPendingRecords ==
    (proc[1].pc = "idle")
       => \A kind \in {"VOUCHER", "PROMOTION"} :
             \A code \in DOMAIN Table(kind) :
                Table(kind)[code].currentUsage =
                   Cardinality({d \in discounts :
                                   /\ d.discountType = kind
                                   /\ d.discountCode = code
                                   /\ orders[d.orderId].status = "PENDING"})

\* voucher B is on two orders, one of them cancelled since, and counts one
\* use
C22_OneOfTwoRecordsCounts ==
    /\ proc[1].pc = "idle"
    /\ vouchers["B"].currentUsage = 1
    /\ \E d1, d2 \in RecordsOf("B") :
          /\ orders[d1.orderId].status = "CANCELLED"
          /\ orders[d2.orderId].status = "PENDING"

-----------------------------------------------------------------------------
\* C23: under any interleaving of removeDiscount and cancelOrder calls, once
\* no call is running every voucher and promotion still counts at least the
\* records of its code on PENDING orders: a use is given back once per
\* application, never the use of another order (SpecRelease)
C23_NoDoubleRelease ==
    (\A p \in Procs : proc[p].pc = "idle")
       => /\ \A code \in VoucherCodes :
                vouchers[code].currentUsage >=
                   Cardinality(HeldOnPending("VOUCHER", code))
          /\ \A code \in PromotionCodes :
                promotions[code].currentUsage >=
                   Cardinality(HeldOnPending("PROMOTION", code))

-----------------------------------------------------------------------------
\* C24: under any interleaving, in every step the records and the totals of
\* an order that is CANCELLED stay as they are, and no call on that order
\* raises the currentUsage of a rule (Spec)
C24_CancelledIsFrozen ==
    [][\A o \in DOMAIN orders :
          orders[o].status = "CANCELLED"
             => /\ {d \in discounts' : d.orderId = o} = OrderDiscountsOf(o)
                /\ orders'[o] = orders[o]
                /\ \A p \in Procs :
                      (proc[p].oid = o /\ proc'[p] # proc[p])
                         => /\ \A code \in DOMAIN vouchers :
                                  vouchers'[code].currentUsage
                                     <= vouchers[code].currentUsage
                            /\ \A code \in DOMAIN promotions :
                                  promotions'[code].currentUsage
                                     <= promotions[code].currentUsage
      ]_vars

-----------------------------------------------------------------------------
\* calculatedDiscount of applyVoucher / applyPromotion for a rule on an order,
\* before the cap (1/100 cent)
Uncapped(kind, code, o) ==
    IF kind = "VOUCHER"
    THEN calculateVoucherDiscount(vouchers[code], Units(orders[o].subtotal))
    ELSE calculatePromotionDiscount(promotions[code],
             checkEligibility(promotions[code], CartOf(o)))

\* what enforceDiscountCap did in the call of handler 1: with S the subtotal,
\* C the total read and D the calculated discount, the amount handed to the
\* transaction is D when C + D <= S/2 and S/2 - C > 0 otherwise; an attempt
\* refused with CapExhausted had S/2 - C <= 0 and committed nothing
CapFunction ==
    LET r == proc[1]
    IN  /\ (r.pc = "tx_insert" /\ r.op = "apply") =>
              LET S == Units(r.ord.subtotal)
                  C == Units(r.ord.totalDiscount)
                  D == Uncapped(r.kind, r.rule.code, r.oid)
              IN  /\ r.amount = IF C + D <= S \div 2 THEN D ELSE S \div 2 - C
                  /\ r.amount > 0
        /\ (r.op = "apply" /\ r.pre # NoPre
            /\ "CapExhausted" \in {r.verr, r.perr}) =>
              /\ Units(orders[r.oid].subtotal) \div 2
                    - Units(r.pre.orders[r.oid].totalDiscount) <= 0
              /\ r.pc = "done" => (r.res # "ok" => ~r.dirty)

\* the applyDiscount calls that returned ok after the cap cut their amount
CutByCap ==
    {p \in Returned("apply") :
        LET r == proc[p]
        IN  /\ r.res = "ok"
            /\ \E d \in discounts \ r.pre.discounts :
                  Units(r.pre.orders[r.oid].totalDiscount)
                     + Uncapped(d.discountType, d.discountCode, r.oid)
                  > Units(orders[r.oid].subtotal) \div 2}

\* C25 as stated: enforceDiscountCap returns D, or S/2 - C when that is
\* positive, or refuses; and after a cut the order's totalDiscount is exactly
\* half the subtotal
C25_CapMakesTotalHalf ==
    /\ CapFunction
    /\ \A p \in CutByCap :
          Units(orders[proc[p].oid].totalDiscount)
             = Units(orders[proc[p].oid].subtotal) \div 2

\* C25 amended: enforceDiscountCap returns D when C + D <= S/2, S/2 - C when
\* that is positive, and refuses with no partial discount otherwise; after a
\* cut the order's totalDiscount is half the subtotal to the nearest cent
\* (SpecSeq)
C25_CapMakesTotalHalfToTheCent ==
    /\ CapFunction
    /\ \A p \in CutByCap :
          LET o == proc[p].oid
          IN  /\ 2 * orders[o].totalDiscount >= orders[o].subtotal - 1
              /\ 2 * orders[o].totalDiscount <= orders[o].subtotal + 1

\* a discount was cut on an order whose subtotal is an odd number of cents
C25_CutOnOddSubtotal ==
    \E p \in CutByCap : orders[proc[p].oid].subtotal % 2 = 1

-----------------------------------------------------------------------------
\* order o carries exactly the two codes, `first` applied before `second`
\* (record ids grow with the applications; nothing is removed in SpecTwin)
AppliedInOrder(o, first, second) ==
    /\ {d.discountCode : d \in OrderDiscountsOf(o)} = {first, second}
    /\ \E d1, d2 \in OrderDiscountsOf(o) :
          /\ d1.discountCode = first /\ d2.discountCode = second
          /\ d1.id < d2.id

\* C26: two orders with the same cart and no discount got the same two codes,
\* one A then B, the other B then A, both without a failure: their
\* totalDiscount is the same, within a cent of min(S/2, dA + dB), and within
\* the cap (SpecTwin)
C26_TotalIndependentOfOrder ==
    \A o1, o2 \in DOMAIN orders :
        (/\ proc[1].pc = "idle"
         /\ orders[o1].subtotal = orders[o2].subtotal
         /\ AppliedInOrder(o1, "A", "B") /\ AppliedInOrder(o2, "B", "A"))
            => LET S == Units(orders[o1].subtotal)
                   both == Uncapped("VOUCHER", "A", o1)
                              + Uncapped("VOUCHER", "B", o1)
                   expected == Min(S \div 2, both)
               IN  /\ orders[o1].totalDiscount = orders[o2].totalDiscount
                   /\ Units(orders[o1].totalDiscount) - expected < 100
                   /\ expected - Units(orders[o1].totalDiscount) < 100
                   /\ 2 * orders[o1].totalDiscount <= orders[o1].subtotal + 1

-----------------------------------------------------------------------------
\* C27: in every step the version of a voucher or promotion does not
\* decrease, and a step that changes the row (admin update, incrementUsage,
\* decrementUsage, soft delete) raises its version by exactly one (SpecAdmin)
C27_VersionCountsChanges ==
    [][/\ \A code \in DOMAIN vouchers :
            /\ vouchers'[code].version >= vouchers[code].version
            /\ vouchers'[code] # vouchers[code]
                  => vouchers'[code].version = vouchers[code].version + 1
       /\ \A code \in DOMAIN promotions :
            /\ promotions'[code].version >= promotions[code].version
            /\ promotions'[code] # promotions[code]
                  => promotions'[code].version = promotions[code].version + 1
      ]_vars

-----------------------------------------------------------------------------
\* C28: the step of a handler that calls incrementUsage with the version it
\* read: when the stored version is that version the row gets currentUsage
\* + 1 and version + 1 in the one step and the call goes on; otherwise the
\* attempt ends with VersionConflict and no row changes.  So two handlers
\* that both incremented a rule did not hold the same version, and with
\* applications only every rule stands at currentUsage = version = the
\* number of increments that succeeded (SpecApply)
C28_IncrementIsCompareAndSet ==
    /\ [](\A code \in VoucherCodes \cup PromotionCodes :
             Rule(code).version = Rule(code).currentUsage)
    /\ [](\A p, q \in Procs :
             (/\ p # q /\ proc[p].pc = "commit" /\ proc[q].pc = "commit"
              /\ proc[p].kind = proc[q].kind
              /\ proc[p].rule.code = proc[q].rule.code)
                => proc[p].rule.version # proc[q].rule.version)
    /\ [][\A p \in Procs :
             (proc[p].pc = "increment" /\ proc'[p] # proc[p])
                => LET r == proc[p]
                       row == RowNow(p)
                       after == IF r.kind = "VOUCHER"
                                THEN vouchers'[r.rule.code]
                                ELSE promotions'[r.rule.code]
                   IN  IF row.version = r.rule.version
                       THEN /\ after = [row EXCEPT
                                           !.currentUsage = row.currentUsage + 1,
                                           !.version = row.version + 1]
                            /\ \A code \in DOMAIN vouchers :
                                  \/ r.kind = "VOUCHER" /\ code = r.rule.code
                                  \/ vouchers'[code] = vouchers[code]
                            /\ \A code \in DOMAIN promotions :
                                  \/ r.kind = "PROMOTION" /\ code = r.rule.code
                                  \/ promotions'[code] = promotions[code]
                            /\ proc'[p].pc = "commit"
                       ELSE /\ UNCHANGED <<vouchers, promotions>>
                            /\ "VersionConflict"
                                  \in {proc'[p].verr, proc'[p].perr}
          ]_vars

\* two handlers read the same version of a rule; one has incremented it and
\* the other's incrementUsage was refused
C28_SecondHolderRefused ==
    \E p, q \in Procs :
        /\ p # q /\ proc[p].pc = "commit"
        /\ "VersionConflict" \in {proc[q].verr, proc[q].perr}
        /\ proc[q].code = proc[p].rule.code
        /\ Rule(proc[p].rule.code).currentUsage = 1

-----------------------------------------------------------------------------
\* what each line of the cart gives to a promotion: nothing when the item is
\* not eligible, else its line total (whole == TRUE) or the fixed amount per
\* unit held to the unit's price (1/100 cent)
LineShares(promotion, orderItems, whole) ==
    [i \in 1..Len(orderItems) |->
        LET item == orderItems[i]
        IN  IF ~Eligible(promotion, item) THEN 0
            ELSE IF whole \/ promotion.discountValue > item.unitPrice
            THEN Units(item.unitPrice) * item.quantity
            ELSE Units(promotion.discountValue) * item.quantity]

\* the uncapped promotion discount as the lines' shares give it
PromotionDiscount(promotion, orderItems) ==
    IF promotion.discountType = "PERCENTAGE"
    THEN (SumSeq(LineShares(promotion, orderItems, TRUE))
             * promotion.discountValue) \div 100
    ELSE SumSeq(LineShares(promotion, orderItems, FALSE))

\* C29: for every promotion and cart the discount calculated on the items
\* checkEligibility returns is value% of the eligible lines' total
\* (PERCENTAGE) or the sum over the eligible lines of min(value x quantity,
\* unitPrice x quantity) (FIXED), at most the eligible lines' total, the other
\* lines giving nothing; and an applyPromotion that goes on to its
\* transaction carries that amount through enforceDiscountCap (SpecAmount)
C29_PromotionDiscountOnEligibleItems ==
    /\ [](\A code \in DOMAIN promotions, o \in OrderIds :
             LET promotion == promotions[code]
                 amount == calculatePromotionDiscount(promotion,
                              checkEligibility(promotion, CartOf(o)))
             IN  /\ amount = PromotionDiscount(promotion, CartOf(o))
                 /\ amount <= SumSeq(LineShares(promotion, CartOf(o), TRUE)))
    /\ [][\A p \in Procs :
             (/\ proc[p].pc = "validate" /\ proc[p].kind = "PROMOTION"
              /\ proc'[p].pc = "tx_insert")
                => LET r == proc[p]
                       promotion == promotions[ToUpper(r.code)]
                   IN  proc'[p].amount =
                          enforceDiscountCap(
                             Units(r.ord.subtotal), Units(r.ord.totalDiscount),
                             PromotionDiscount(promotion, CartOf(r.oid))).value
          ]_vars

\* a FIXED promotion of more than the price of a book, on Books only, gave
\* order o1 the price of its two books and nothing for its other item
C29_FixedHeldToLineTotal ==
    /\ promotions["C"].discountType = "FIXED"
    /\ promotions["C"].discountValue = 70
    /\ promotions["C"].eligibleCategories = <<"Books">>
    /\ \E d \in OrderDiscountsOf("o1") :
          d.discountCode = "C" /\ d.discountAmount = 50

-----------------------------------------------------------------------------
\* the uncapped voucher discount on a subtotal (1/100 cent, the subtotal a
\* whole number of cents): value hundredths of the subtotal for a PERCENTAGE,
\* the value or, when that is more, the subtotal for a FIXED voucher
VoucherDiscount(voucher, subtotal) ==
    IF voucher.discountType = "PERCENTAGE"
    THEN (subtotal \div 100) * voucher.discountValue
    ELSE IF Units(voucher.discountValue) > subtotal
    THEN subtotal
    ELSE Units(voucher.discountValue)

\* C30: for every voucher and order calculateVoucherDiscount gives
\* S x value / 100 (PERCENTAGE) or min(value, S) (FIXED), never more than the
\* subtotal; and an applyVoucher that goes on to its transaction carries
\* that amount through enforceDiscountCap (SpecTwin)
C30_VoucherDiscount ==
    /\ [](\A code \in DOMAIN vouchers, o \in DOMAIN orders :
             LET S == Units(orders[o].subtotal)
                 amount == calculateVoucherDiscount(vouchers[code], S)
             IN  /\ amount = VoucherDiscount(vouchers[code], S)
                 /\ amount <= S)
    /\ [][\A p \in Procs :
             (/\ proc[p].pc = "validate" /\ proc[p].kind = "VOUCHER"
              /\ proc'[p].pc = "tx_insert")
                => LET r == proc[p]
                       S == Units(r.ord.subtotal)
                   IN  proc'[p].amount =
                          enforceDiscountCap(S, Units(r.ord.totalDiscount),
                             VoucherDiscount(vouchers[ToUpper(r.code)], S)).value
          ]_vars

\* a FIXED voucher worth more than the whole order was applied to it
C30_FixedAboveSubtotalApplied ==
    \E d \in discounts :
        /\ d.discountType = "VOUCHER"
        /\ vouchers[d.discountCode].discountType = "FIXED"
        /\ vouchers[d.discountCode].discountValue > orders[d.orderId].subtotal
        /\ 2 * d.discountAmount = orders[d.orderId].subtotal

=============================================================================
